---- MODULE Spec2Model ----
(***************************************************************************)
(* Chapter Visual-Prompt Synthesis Engine of the storybook backend.        *)
(*                                                                         *)
(* The engine is a family of pure functions over strings.  Strings are     *)
(* modelled as TLA+ strings (TLC evaluates Len, \o and SubSeq on them), so *)
(* substring tests, lower-casing, trimming, joining and line splitting are *)
(* computed character by character, as the TypeScript code computes them.  *)
(* The engine keeps no state between invocations, so the state of the     *)
(* model is one invocation: the function and its arguments (call), whether *)
(* it has returned (pc) and what it returned (ret).                        *)
(***************************************************************************)
EXTENDS Integers, Sequences, FiniteSets, TLC

VARIABLES call, ret, pc

\* interleaved invocations of buildChapterSpecificPrompt: the arguments and
\* position of each invocation, the frames holding their locals, the values
\* returned, and the number of lines written to the console
VARIABLES args, step, locals, returned, console

engineVars == <<args, step, locals, returned, console>>

\* the routes: the in-memory session store, the answer to the last request
\* (with whether the request left the store different from what it was on
\* arrival), and the sessions on which POST /pdf/generate has completed
VARIABLES sessionStorage, response, pdfGenerated

routeVars == <<sessionStorage, response, pdfGenerated>>

vars == <<call, ret, pc, engineVars, routeVars>>

(***************************************************************************)
(* Bounds of the model.                                                    *)
(***************************************************************************)
\* number of sentences concatenated into one chapter text
MaxSentences == 2

\* number of engine invocations in flight at the same time
MaxTasks == 2

\* number of session ids the store can hold
MaxSessions == 1
\* chapter numbers range over 1..MaxChapter
MaxChapter == 2
\* length of the objects / settings lists handed to buildSceneComposition
MaxListLen == 2

(***************************************************************************)
(* String primitives of the JavaScript runtime.                            *)
(***************************************************************************)
\* k occurs in s at position i
OccursAt(s, i, k) ==
  i >= 1 /\ i + Len(k) - 1 <= Len(s) /\ SubSeq(s, i, i + Len(k) - 1) = k

\* String.prototype.includes
Includes(s, k) == \E i \in 1..(Len(s) - Len(k) + 1) : OccursAt(s, i, k)

UpperCaseLetters == "ABCDEFGHIJKLMNOPQRSTUVWXYZ"
LowerCaseLetters == "abcdefghijklmnopqrstuvwxyz"

LowerChar(c) ==
  IF \E i \in 1..26 : SubSeq(UpperCaseLetters, i, i) = c
  THEN LET i == CHOOSE j \in 1..26 : SubSeq(UpperCaseLetters, j, j) = c
       IN  SubSeq(LowerCaseLetters, i, i)
  ELSE c

\* String.prototype.toLowerCase, computed by halving the string
RECURSIVE ToLowerCase(_)
ToLowerCase(s) ==
  IF Len(s) = 0 THEN ""
  ELSE IF Len(s) = 1 THEN LowerChar(s)
  ELSE LET h == Len(s) \div 2
       IN  ToLowerCase(SubSeq(s, 1, h)) \o ToLowerCase(SubSeq(s, h + 1, Len(s)))

WhiteSpace == {" ", "\t", "\n", "\r"}

RECURSIVE TrimStart(_)
TrimStart(s) ==
  IF Len(s) > 0 /\ SubSeq(s, 1, 1) \in WhiteSpace
  THEN TrimStart(SubSeq(s, 2, Len(s)))
  ELSE s

RECURSIVE TrimEnd(_)
TrimEnd(s) ==
  IF Len(s) > 0 /\ SubSeq(s, Len(s), Len(s)) \in WhiteSpace
  THEN TrimEnd(SubSeq(s, 1, Len(s) - 1))
  ELSE s

\* String.prototype.trim
Trim(s) == TrimEnd(TrimStart(s))

\* JavaScript truthiness of a string followed by the blank test the code uses:
\* (s && s.trim().length > 0)
NonBlank(s) == Len(s) > 0 /\ Len(Trim(s)) > 0

RECURSIVE JoinFrom(_, _, _)
JoinFrom(xs, sep, i) ==
  IF i > Len(xs) THEN ""
  ELSE IF i = Len(xs) THEN xs[i]
  ELSE xs[i] \o sep \o JoinFrom(xs, sep, i + 1)

\* Array.prototype.join
Join(xs, sep) == JoinFrom(xs, sep, 1)

\* Array.prototype.slice(0, n)
Slice(xs, n) == SubSeq(xs, 1, IF Len(xs) < n THEN Len(xs) ELSE n)

(***************************************************************************)
(* Reading a prompt back: the lines of a multi-line string.                *)
(***************************************************************************)
\* positions of the line breaks of s
Breaks(s) == {i \in 1..Len(s) : SubSeq(s, i, i) = "\n"}

\* the elements of a finite set of numbers, in increasing order
Ascending(B) ==
  [k \in 1..Cardinality(B) |->
     CHOOSE i \in B : Cardinality({j \in B : j <= i}) = k]

\* s.split('\n')
Lines(s) ==
  LET at == Ascending(Breaks(s))
      n == Len(at)
  IN  [k \in 1..(n + 1) |->
         SubSeq(s, IF k = 1 THEN 1 ELSE at[k - 1] + 1,
                   IF k > n THEN Len(s) ELSE at[k] - 1)]

StartsWith(s, p) == Len(s) >= Len(p) /\ SubSeq(s, 1, Len(p)) = p

(***************************************************************************)
(* src/utils/sceneCompositionBuilder.ts                                    *)
(***************************************************************************)
\* the midground line pushed without the guard on objects
MidgroundLines_unguarded(objs) ==
  <<"Midground: " \o Join(objs, ", ") \o ".">>

\* lines.push of the optional layer lines
MidgroundLines(objs) ==
  IF Len(objs) > 0
  THEN <<"Midground: " \o Join(objs, ", ") \o ".">>
  ELSE <<>>

BackgroundLines(settings) ==
  IF Len(settings) > 0
  THEN <<"Background: " \o Join(settings, ", ") \o ".">>
  ELSE <<>>

\* an optional field is a sequence of length 0 (undefined) or 1; the
\* destructuring default applies when it is undefined
OrDefault(opt, default) == IF Len(opt) = 0 THEN default ELSE opt[1]

\* the background line pushed before the midground line
buildSceneComposition_backgroundFirst(elements) ==
  LET cameraAngle == OrDefault(elements.cameraAngle, "front view")
      lighting == OrDefault(elements.lighting, "soft daylight")
  IN  Join(<<"Scene Composition:",
             "Foreground: " \o elements.characterPose \o ", "
                            \o elements.emotion \o ".">>
           \o BackgroundLines(elements.settings)
           \o MidgroundLines(elements.objects)
           \o <<"Camera angle: " \o cameraAngle \o ".",
                "Lighting: " \o lighting \o ".">>,
           "\n")

buildSceneComposition(elements) ==
  LET cameraAngle == OrDefault(elements.cameraAngle, "front view")
      lighting == OrDefault(elements.lighting, "soft daylight")
  IN  Join(<<"Scene Composition:",
             "Foreground: " \o elements.characterPose \o ", "
                            \o elements.emotion \o ".">>
           \o MidgroundLines(elements.objects)
           \o BackgroundLines(elements.settings)
           \o <<"Camera angle: " \o cameraAngle \o ".",
                "Lighting: " \o lighting \o ".">>,
           "\n")

\* the lookup without its chapterNumber === 1 test
getCameraAndLighting_themeOnly(context) ==
  IF context.chapterTheme = "discovery"
  THEN [cameraAngle |-> "front view, slightly low angle",
        lighting |-> "warm sunlight with magical glows"]
  ELSE IF context.chapterTheme = "problem-solving"
          \/ context.chapterTheme = "conflict"
  THEN [cameraAngle |-> "mid-shot, eye level",
        lighting |-> "diffused light with dramatic shadows"]
  ELSE IF context.chapterTheme = "joyful-ending"
          \/ context.chapterTheme = "resolution"
  THEN [cameraAngle |-> "wide shot, slightly high angle",
        lighting |-> "bright light with sparkles and glow"]
  ELSE IF context.chapterTheme = "adventure"
  THEN [cameraAngle |-> "dynamic angle, slightly tilted",
        lighting |-> "vibrant light with strong highlights"]
  ELSE [cameraAngle |-> "front view, eye level",
        lighting |-> "soft daylight"]

getCameraAndLighting(context) ==
  IF context.chapterNumber = 1 \/ context.chapterTheme = "discovery"
  THEN [cameraAngle |-> "front view, slightly low angle",
        lighting |-> "warm sunlight with magical glows"]
  ELSE IF context.chapterTheme = "problem-solving"
          \/ context.chapterTheme = "conflict"
  THEN [cameraAngle |-> "mid-shot, eye level",
        lighting |-> "diffused light with dramatic shadows"]
  ELSE IF context.chapterTheme = "joyful-ending"
          \/ context.chapterTheme = "resolution"
  THEN [cameraAngle |-> "wide shot, slightly high angle",
        lighting |-> "bright light with sparkles and glow"]
  ELSE IF context.chapterTheme = "adventure"
  THEN [cameraAngle |-> "dynamic angle, slightly tilted",
        lighting |-> "vibrant light with strong highlights"]
  ELSE [cameraAngle |-> "front view, eye level",
        lighting |-> "soft daylight"]

\* some keyword of the list occurs in the lowercased text
IncludesAny(lower, kws) == \E k \in 1..Len(kws) : Includes(lower, kws[k])

\* every keyword of the list occurs in the lowercased text
IncludesAll(lower, kws) == \A k \in 1..Len(kws) : Includes(lower, kws[k])

DiscoveryKeywords == <<"discover", "found", "glowing", "mysterious">>
ProblemKeywords == <<"problem", "blocked", "help", "fix", "solve">>
JoyfulKeywords == <<"bloom", "success", "celebrate", "triumph", "victory",
                    "saved">>
ConflictKeywords == <<"worried", "danger", "challenge", "difficult">>
ResolutionKeywords == <<"finally", "resolved", "peaceful", "return home">>
AdventureKeywords == <<"journey", "explore", "adventure", "followed">>

\* the conflict rule tested before the joyful-ending rule
detectChapterTheme_conflictFirst(chapterText, chapterNumber) ==
  LET chapterLower == ToLowerCase(chapterText) IN
  IF IncludesAny(chapterLower, DiscoveryKeywords) \/ chapterNumber = 1
  THEN "discovery"
  ELSE IF IncludesAny(chapterLower, ProblemKeywords) THEN "problem-solving"
  ELSE IF IncludesAny(chapterLower, ConflictKeywords) THEN "conflict"
  ELSE IF IncludesAny(chapterLower, JoyfulKeywords) THEN "joyful-ending"
  ELSE IF IncludesAny(chapterLower, ResolutionKeywords) THEN "resolution"
  ELSE IF IncludesAny(chapterLower, AdventureKeywords) THEN "adventure"
  ELSE "adventure"

\* the discovery rule without its chapterNumber === 1 disjunct
detectChapterTheme_ignoresChapterNumber(chapterText, chapterNumber) ==
  LET chapterLower == ToLowerCase(chapterText) IN
  IF IncludesAny(chapterLower, DiscoveryKeywords) THEN "discovery"
  ELSE IF IncludesAny(chapterLower, ProblemKeywords) THEN "problem-solving"
  ELSE IF IncludesAny(chapterLower, JoyfulKeywords) THEN "joyful-ending"
  ELSE IF IncludesAny(chapterLower, ConflictKeywords) THEN "conflict"
  ELSE IF IncludesAny(chapterLower, ResolutionKeywords) THEN "resolution"
  ELSE "adventure"

detectChapterTheme(chapterText, chapterNumber) ==
  LET chapterLower == ToLowerCase(chapterText) IN
  IF IncludesAny(chapterLower, DiscoveryKeywords) \/ chapterNumber = 1
  THEN "discovery"
  ELSE IF IncludesAny(chapterLower, ProblemKeywords) THEN "problem-solving"
  ELSE IF IncludesAny(chapterLower, JoyfulKeywords) THEN "joyful-ending"
  ELSE IF IncludesAny(chapterLower, ConflictKeywords) THEN "conflict"
  ELSE IF IncludesAny(chapterLower, ResolutionKeywords) THEN "resolution"
  ELSE IF IncludesAny(chapterLower, AdventureKeywords) THEN "adventure"
  ELSE "adventure"

(***************************************************************************)
(* src/utils/promptBuilder.ts                                              *)
(***************************************************************************)
\* Number-to-string conversion of the template literal ${age}, for the ages
\* the model draws.
RECURSIVE NatToString(_)
NatToString(n) ==
  IF n < 10 THEN SubSeq("0123456789", n + 1, n + 1)
  ELSE NatToString(n \div 10) \o SubSeq("0123456789", (n % 10) + 1, (n % 10) + 1)

possessive(gender) == IF gender = "boy" THEN "his" ELSE "her"

\* ${gender === 'boy' ? 'boy' : 'girl'}
genderWord(gender) == IF gender = "boy" THEN "boy" ELSE "girl"

IntroLine(p) ==
  "Create a 3D plus digital sketch illustration type of character named "
  \o p.childName \o ", a " \o NatToString(p.age) \o "-year-old "
  \o genderWord(p.gender) \o " in a magical forest."

\* The source writes the range with an en dash (U+2013); the module keeps
\* to ASCII and writes a hyphen.
StyleLine == "Style: bold outlines (3-5 px), solid colors, clean shapes."

LikenessLine == "Preserve facial likeness, hairstyle, proportions, and clothing."

KeywordsLine(p) ==
  "Keywords: storybook illustration, vibrant colors, expressive, magical forest, "
  \o p.emotion \o "."

\* the narrative scene line of scene-composition mode
sceneDescription(p) ==
  LET chapterTheme == detectChapterTheme(p.chapterText, p.chapterNumber)
      cl == getCameraAndLighting([chapterNumber |-> p.chapterNumber,
                                  chapterTheme |-> chapterTheme])
  IN  "Scene: " \o p.childName \o " " \o p.visualPose
      \o (IF NonBlank(p.sceneContext) THEN ", " \o p.sceneContext ELSE "")
      \o (IF NonBlank(p.environment) THEN ". " \o p.environment ELSE "")
      \o ". " \o cl.cameraAngle \o ", " \o cl.lighting \o "."

LegacySceneLine(p) ==
  "Scene: " \o p.childName \o " is " \o p.visualPose \o ", "
  \o possessive(p.gender) \o " face showing " \o p.emotion \o "."

DefaultEnvironmentLine == "A bright forest clearing glows with warm sunlight."

\* legacy branch that forgets the likeness line
promptLines_legacyWithoutLikeness(p) ==
  IF p.useSceneComposition
  THEN <<IntroLine(p), sceneDescription(p), StyleLine, LikenessLine,
         KeywordsLine(p)>>
  ELSE <<IntroLine(p), LegacySceneLine(p)>>
       \o (IF NonBlank(p.sceneContext) THEN <<p.sceneContext \o ".">> ELSE <<>>)
       \o (IF NonBlank(p.environment) THEN <<p.environment \o ".">>
           ELSE <<DefaultEnvironmentLine>>)
       \o <<StyleLine, KeywordsLine(p)>>

\* legacy branch that pushes the environment line before the scene context
promptLines_environmentFirst(p) ==
  IF p.useSceneComposition
  THEN <<IntroLine(p), sceneDescription(p), StyleLine, LikenessLine,
         KeywordsLine(p)>>
  ELSE <<IntroLine(p), LegacySceneLine(p)>>
       \o (IF NonBlank(p.environment) THEN <<p.environment \o ".">>
           ELSE <<DefaultEnvironmentLine>>)
       \o (IF NonBlank(p.sceneContext) THEN <<p.sceneContext \o ".">> ELSE <<>>)
       \o <<StyleLine, LikenessLine, KeywordsLine(p)>>

\* legacy branch without the else that pushes the default environment
promptLines_noDefaultEnvironment(p) ==
  IF p.useSceneComposition
  THEN <<IntroLine(p), sceneDescription(p), StyleLine, LikenessLine,
         KeywordsLine(p)>>
  ELSE <<IntroLine(p), LegacySceneLine(p)>>
       \o (IF NonBlank(p.sceneContext) THEN <<p.sceneContext \o ".">> ELSE <<>>)
       \o (IF NonBlank(p.environment) THEN <<p.environment \o ".">>
           ELSE <<>>)
       \o <<StyleLine, LikenessLine, KeywordsLine(p)>>

\* promptLines of the two branches, before the join
promptLines(p) ==
  IF p.useSceneComposition
  THEN <<IntroLine(p), sceneDescription(p), StyleLine, LikenessLine,
         KeywordsLine(p)>>
  ELSE <<IntroLine(p), LegacySceneLine(p)>>
       \o (IF NonBlank(p.sceneContext) THEN <<p.sceneContext \o ".">> ELSE <<>>)
       \o (IF NonBlank(p.environment) THEN <<p.environment \o ".">>
           ELSE <<DefaultEnvironmentLine>>)
       \o <<StyleLine, LikenessLine, KeywordsLine(p)>>

buildStorybookPrompt(p) == Join(promptLines(p), "\n")

\* the age range with its lower bound excluded
AgeOutOfRange_exclusive(age) == age = 0 \/ age <= 2 \/ age > 12

\* !params.age || params.age < 2 || params.age > 12
AgeOutOfRange(age) == age = 0 \/ age < 2 \/ age > 12

validatePromptParams(params) ==
     (IF ~NonBlank(params.childName) THEN <<"childName is required">> ELSE <<>>)
  \o (IF AgeOutOfRange(params.age) THEN <<"age must be between 2 and 12">>
      ELSE <<>>)
  \o (IF Len(params.gender) = 0 \/ params.gender \notin {"boy", "girl"}
      THEN <<"gender must be \"boy\" or \"girl\"">> ELSE <<>>)
  \o (IF ~NonBlank(params.visualPose) THEN <<"visualPose is required">>
      ELSE <<>>)
  \o (IF ~NonBlank(params.emotion) THEN <<"emotion is required">> ELSE <<>>)

(***************************************************************************)
(* src/services/storyAnalysis.ts                                           *)
(***************************************************************************)
settingKeywords == <<
  [label |-> "forest",
   keywords |-> <<"forest", "woods", "trees", "woodland", "grove">>],
  [label |-> "castle",
   keywords |-> <<"castle", "palace", "tower", "throne", "kingdom">>],
  [label |-> "ocean",
   keywords |-> <<"ocean", "sea", "beach", "waves", "underwater">>],
  [label |-> "mountain",
   keywords |-> <<"mountain", "cliff", "peak", "valley", "cave">>],
  [label |-> "garden",
   keywords |-> <<"garden", "park", "meadow", "field", "flowers">>],
  [label |-> "city",
   keywords |-> <<"city", "town", "street", "building", "market">>],
  [label |-> "sky",
   keywords |-> <<"sky", "clouds", "flying", "air", "wind">>],
  [label |-> "space",
   keywords |-> <<"space", "planet", "stars", "galaxy", "rocket">>]
>>

objectKeywords == <<
  [label |-> "crystal",
   keywords |-> <<"crystal", "gem", "stone", "jewel">>],
  [label |-> "book",
   keywords |-> <<"book", "scroll", "map", "letter">>],
  [label |-> "sword",
   keywords |-> <<"sword", "shield", "weapon", "armor">>],
  [label |-> "wand",
   keywords |-> <<"wand", "staff", "magic stick", "rod">>],
  [label |-> "crown",
   keywords |-> <<"crown", "tiara", "ring", "treasure">>],
  [label |-> "door",
   keywords |-> <<"door", "gate", "portal", "entrance">>],
  [label |-> "bridge",
   keywords |-> <<"bridge", "path", "road", "way">>],
  [label |-> "flower",
   keywords |-> <<"flower", "rose", "petal", "bloom">>]
>>

actionKeywords == <<
  [label |-> "exploring",
   keywords |-> <<"exploring", "searching", "looking", "discovering">>],
  [label |-> "flying",
   keywords |-> <<"flying", "soaring", "floating", "gliding">>],
  [label |-> "running",
   keywords |-> <<"running", "chasing", "racing", "rushing">>],
  [label |-> "climbing",
   keywords |-> <<"climbing", "ascending", "scaling", "rising">>],
  [label |-> "swimming",
   keywords |-> <<"swimming", "diving", "splashing", "floating">>],
  [label |-> "fighting",
   keywords |-> <<"fighting", "battling", "defeating", "conquering">>],
  [label |-> "helping",
   keywords |-> <<"helping", "saving", "rescuing", "protecting">>]
>>

moodKeywords == <<
  [label |-> "magical",
   keywords |-> <<"magical", "enchanted", "mystical", "glowing", "sparkling">>],
  [label |-> "happy",
   keywords |-> <<"happy", "joyful", "cheerful", "smiling", "laughing">>],
  [label |-> "exciting",
   keywords |-> <<"exciting", "thrilling", "adventurous", "amazing">>],
  [label |-> "peaceful",
   keywords |-> <<"peaceful", "calm", "serene", "quiet", "gentle">>],
  [label |-> "brave",
   keywords |-> <<"brave", "courageous", "bold", "fearless", "heroic">>],
  [label |-> "mysterious",
   keywords |-> <<"mysterious", "secret", "hidden", "unknown">>]
>>

\* a group is tagged only when every one of its keywords occurs
RECURSIVE DetectFrom_everyKeyword(_, _, _)
DetectFrom_everyKeyword(groups, lower, i) ==
  IF i > Len(groups) THEN <<>>
  ELSE (IF IncludesAll(lower, groups[i].keywords)
        THEN <<groups[i].label>> ELSE <<>>)
       \o DetectFrom_everyKeyword(groups, lower, i + 1)

\* the for..of loops over Object.entries: labels of the groups with some
\* keyword in the text, in lexicon order
RECURSIVE DetectFrom(_, _, _)
DetectFrom(groups, lower, i) ==
  IF i > Len(groups) THEN <<>>
  ELSE (IF IncludesAny(lower, groups[i].keywords)
        THEN <<groups[i].label>> ELSE <<>>)
       \o DetectFrom(groups, lower, i + 1)

analyzeChapterElements(chapterText) ==
  LET chapterLower == ToLowerCase(chapterText) IN
  [settings |-> DetectFrom(settingKeywords, chapterLower, 1),
   objects |-> DetectFrom(objectKeywords, chapterLower, 1),
   actions |-> DetectFrom(actionKeywords, chapterLower, 1),
   moods |-> DetectFrom(moodKeywords, chapterLower, 1),
   chapterText |-> chapterText]

posePatterns == <<
  [keywords |-> <<"kneeling", "holding", "pebble", "glowing">>,
   pose |-> "kneeling near an old oak tree, gently holding a glowing, rainbow-colored pebble with awe"],
  [keywords |-> <<"sitting", "humming", "weaving", "vines">>,
   pose |-> "sitting beside a sparkling stream, smiling with joy as she hums and gently weaves apart glowing Giggle-Vines"],
  [keywords |-> <<"sitting", "stream", "weaving", "vines">>,
   pose |-> "sitting beside the stream, gently weaving apart the shimmering Giggle-Vines with care"],
  [keywords |-> <<"kneeling", "holding", "locket", "heart">>,
   pose |-> "kneeling under an old oak tree, gently holding a glowing heart-shaped locket"],
  [keywords |-> <<"standing", "beside", "star", "laughing">>,
   pose |-> "standing beside the glowing Wishing Star, laughing joyfully"],
  [keywords |-> <<"kneeling", "digging", "pebble">>,
   pose |-> "kneeling in the garden, digging near the old oak tree with excitement"],
  [keywords |-> <<"holding", "pebble", "rainbow">>,
   pose |-> "holding a smooth, rainbow-colored pebble that glows softly"],
  [keywords |-> <<"standing", "holding", "locket", "glowing">>,
   pose |-> "standing confidently, holding an open glowing locket"],
  [keywords |-> <<"kneeling", "holding", "locket">>,
   pose |-> "kneeling down, holding a glowing locket in both hands"],
  [keywords |-> <<"kneeling", "digging", "shovel">>,
   pose |-> "kneeling in the soil, digging with a small shovel"],
  [keywords |-> <<"holding", "pebble", "glowing">>,
   pose |-> "holding a glowing pebble close, with wide eyes full of wonder"],
  [keywords |-> <<"sitting", "humming", "stream">>,
   pose |-> "sitting beside the stream, humming a gentle melody"],
  [keywords |-> <<"carrying", "cupped hands">>,
   pose |-> "walking carefully with cupped hands carrying something small"],
  [keywords |-> <<"reaching", "offering", "leaf">>,
   pose |-> "reaching forward, offering a leaf with both hands"],
  [keywords |-> <<"sitting", "reading", "book">>,
   pose |-> "sitting cross-legged, reading an open book"],
  [keywords |-> <<"standing", "pointing">>,
   pose |-> "standing upright, pointing ahead excitedly"],
  [keywords |-> <<"standing", "laughing">>,
   pose |-> "standing joyfully, laughing with arms slightly raised"],
  [keywords |-> <<"climbing", "tree">>,
   pose |-> "climbing up carefully"],
  [keywords |-> <<"painting", "drawing">>,
   pose |-> "painting or drawing with creative focus"],
  [keywords |-> <<"kneeling down", "kneel">>,
   pose |-> "kneeling down on one knee"],
  [keywords |-> <<"holding", "locket">>,
   pose |-> "holding a glowing locket gently in both hands"],
  [keywords |-> <<"holding", "crystal", "gem", "stone">>,
   pose |-> "holding a glowing object in both hands"],
  [keywords |-> <<"holding", "flower", "leaf">>,
   pose |-> "holding a flower/leaf gently in cupped hands"],
  [keywords |-> <<"reaching out", "reaching">>,
   pose |-> "reaching out with one hand extended"],
  [keywords |-> <<"waving">>,
   pose |-> "waving cheerfully with one hand raised"],
  [keywords |-> <<"laughing", "giggling">>,
   pose |-> "laughing joyfully with a bright smile"],
  [keywords |-> <<"pointing">>,
   pose |-> "pointing forward with determination"],
  [keywords |-> <<"dancing", "twirling">>,
   pose |-> "dancing joyfully with arms out"],
  [keywords |-> <<"running">>,
   pose |-> "running forward with determination"],
  [keywords |-> <<"walking forward", "walking">>,
   pose |-> "walking forward confidently"],
  [keywords |-> <<"sitting">>,
   pose |-> "sitting comfortably"],
  [keywords |-> <<"standing tall", "standing">>,
   pose |-> "standing upright"],
  [keywords |-> <<"looking up", "gazing">>,
   pose |-> "looking up with wonder"],
  [keywords |-> <<"hugging">>,
   pose |-> "hugging warmly"],
  [keywords |-> <<"offering", "giving">>,
   pose |-> "offering something with outstretched hands"]
>>

\* a rule fires as soon as one of its keywords occurs
RECURSIVE FirstAll_anyKeyword(_, _, _)
FirstAll_anyKeyword(patterns, lower, i) ==
  IF i > Len(patterns) THEN i
  ELSE IF IncludesAny(lower, patterns[i].keywords) THEN i
  ELSE FirstAll_anyKeyword(patterns, lower, i + 1)

\* index of the first rule, from i on, all of whose keywords occur in the
\* text; Len(patterns) + 1 when there is none
RECURSIVE FirstAll(_, _, _)
FirstAll(patterns, lower, i) ==
  IF i > Len(patterns) THEN i
  ELSE IF IncludesAll(lower, patterns[i].keywords) THEN i
  ELSE FirstAll(patterns, lower, i + 1)

\* index of the first rule, from i on, one of whose keywords occurs in the
\* text; Len(patterns) + 1 when there is none
RECURSIVE FirstAny(_, _, _)
FirstAny(patterns, lower, i) ==
  IF i > Len(patterns) THEN i
  ELSE IF IncludesAny(lower, patterns[i].keywords) THEN i
  ELSE FirstAny(patterns, lower, i + 1)

DefaultPose == "standing with a warm, friendly expression"

\* no default pose: the empty string when no rule fires
extractVisualPose_noDefault(chapterText) ==
  LET chapterLower == ToLowerCase(chapterText)
      i == FirstAll(posePatterns, chapterLower, 1)
  IN  IF i <= Len(posePatterns) THEN posePatterns[i].pose ELSE ""

extractVisualPose(chapterText) ==
  LET chapterLower == ToLowerCase(chapterText)
      i == FirstAll(posePatterns, chapterLower, 1)
  IN  IF i <= Len(posePatterns) THEN posePatterns[i].pose ELSE DefaultPose

characterPatterns == <<
  [keywords |-> <<"pip", "pixie", "sprite">>,
   context |-> "Pip the Pixie-sprite floats near her shoulder, laughing along"],
  [keywords |-> <<"pip", "shoulder">>,
   context |-> "Pip the Pixie-sprite hovers near her shoulder with joy"],
  [keywords |-> <<"pip", "flittering">>,
   context |-> "Pip the Pixie-sprite flits nearby with butterfly wings"],
  [keywords |-> <<"pip", "glimmerwing">>,
   context |-> "Pip the Glimmerwing hovers nearby, beaming proudly"],
  [keywords |-> <<"pip">>,
   context |-> "Pip, a tiny creature with emerald skin, sparkles nearby"],
  [keywords |-> <<"dewdrop", "sprite">>,
   context |-> "colorful Dewdrop Sprites dance around with sparkles"],
  [keywords |-> <<"leaf", "elf", "elves">>,
   context |-> "giggling Leaf-Elves cheer with joy"],
  [keywords |-> <<"sprites", "elves", "creatures">>,
   context |-> "magical creatures celebrate together"],
  [keywords |-> <<"fireflies", "forest">>,
   context |-> "little fireflies and gentle forest sprites twinkle around"],
  [keywords |-> <<"glimmerwings", "flutter", "worried">>,
   context |-> "tiny Glimmerwings flutter nearby with worried expressions"],
  [keywords |-> <<"glimmerwings", "flutter">>,
   context |-> "tiny Glimmerwings flutter around with sparkly wings"],
  [keywords |-> <<"glimmerwing", "sparkle">>,
   context |-> "a tiny Glimmerwing named Pip sparkles in the warm light"],
  [keywords |-> <<"caterpillar", "pip">>,
   context |-> "a small caterpillar rests nearby"],
  [keywords |-> <<"fairy", "fairies">>,
   context |-> "small fairies hover around"],
  [keywords |-> <<"dragon", "friendly">>,
   context |-> "a friendly dragon stands nearby"],
  [keywords |-> <<"butterfly", "butterflies", "glow">>,
   context |-> "glowing butterflies flutter in the warm light"],
  [keywords |-> <<"butterfly", "butterflies">>,
   context |-> "colorful butterflies flutter around"],
  [keywords |-> <<"bird", "birds">>,
   context |-> "cheerful birds perch nearby"],
  [keywords |-> <<"rabbit", "bunny">>,
   context |-> "a small rabbit watches curiously"],
  [keywords |-> <<"moss", "soft">>,
   context |-> "soft moss and glowing elements surround the scene"]
>>

objectPatterns == <<
  [keywords |-> <<"moonpetal", "flowers", "bloom">>,
   context |-> "the Moonpetal Flowers bloom beautifully, bathing the scene in warm silvery light"],
  [keywords |-> <<"giggle", "vines", "shimmer">>,
   context |-> "sparkling Giggle-Vines wiggle playfully nearby"],
  [keywords |-> <<"starlight", "stream", "flow">>,
   context |-> "the Starlight Stream flows and sparkles beside her"],
  [keywords |-> <<"wishing", "star", "glow">>,
   context |-> "the brilliant Wishing Star shines overhead"],
  [keywords |-> <<"portal", "shimmer", "colors">>,
   context |-> "a shimmering portal of colors glows in the background"],
  [keywords |-> <<"oak", "tree", "old">>,
   context |-> "an old oak tree stands majestically behind"],
  [keywords |-> <<"pebble", "rainbow", "glow">>,
   context |-> "sunlight filters through the branches, making scattered pebbles and moss sparkle"],
  [keywords |-> <<"petals", "glow">>,
   context |-> "glowing petals and soft light fill the air"],
  [keywords |-> <<"archway", "hidden">>,
   context |-> "hints of a hidden archway glow softly in the distance"],
  [keywords |-> <<"portal", "glowing", "shimmering">>,
   context |-> "a shimmering portal glows faintly in the background"],
  [keywords |-> <<"door", "magical", "glowing">>,
   context |-> "a magical glowing door stands behind"],
  [keywords |-> <<"tree", "ancient", "glowing">>,
   context |-> "an ancient glowing tree towers in the background"],
  [keywords |-> <<"crystal", "floating">>,
   context |-> "floating crystals shimmer around"],
  [keywords |-> <<"rainbow", "light">>,
   context |-> "rainbow light illuminates the scene"],
  [keywords |-> <<"rainbow">>,
   context |-> "a soft rainbow arcs in the background"],
  [keywords |-> <<"stars", "glowing">>,
   context |-> "glowing stars twinkle around"],
  [keywords |-> <<"sparkles", "laughter">>,
   context |-> "bright sparkles fill the air"]
>>

\* the character loop stopping at the third matching rule
RECURSIVE CharacterContexts_limitThree(_, _, _)
CharacterContexts_limitThree(lower, i, characterCount) ==
  IF i > Len(characterPatterns) \/ characterCount >= 3 THEN <<>>
  ELSE IF IncludesAll(lower, characterPatterns[i].keywords)
  THEN <<characterPatterns[i].context>>
       \o CharacterContexts_limitThree(lower, i + 1, characterCount + 1)
  ELSE CharacterContexts_limitThree(lower, i + 1, characterCount)

\* the character loop: contexts of the matching rules, stopping at the second
RECURSIVE CharacterContexts(_, _, _)
CharacterContexts(lower, i, characterCount) ==
  IF i > Len(characterPatterns) \/ characterCount >= 2 THEN <<>>
  ELSE IF IncludesAll(lower, characterPatterns[i].keywords)
  THEN <<characterPatterns[i].context>>
       \o CharacterContexts(lower, i + 1, characterCount + 1)
  ELSE CharacterContexts(lower, i + 1, characterCount)

\* the object loop: the context of the first matching rule only
ObjectContexts(lower) ==
  LET i == FirstAll(objectPatterns, lower, 1)
  IN  IF i <= Len(objectPatterns) THEN <<objectPatterns[i].context>> ELSE <<>>

extractSceneContext(chapterText) ==
  LET chapterLower == ToLowerCase(chapterText)
  IN  Join(CharacterContexts(chapterLower, 1, 0) \o ObjectContexts(chapterLower),
           ", and ")

\* first.*?to.*?(alt1|alt2|...) : the three literals in this order, without
\* overlap, and no line terminator in between ('.' does not match one)
RegexTest(lower, first, alts) ==
  \E i \in 1..Len(lower) :
    /\ OccursAt(lower, i, first)
    /\ \E j \in (i + Len(first))..Len(lower) :
         /\ OccursAt(lower, j, "to")
         /\ \E a \in 1..Len(alts) : \E k \in (j + 2)..Len(lower) :
              /\ OccursAt(lower, k, alts[a])
              /\ ~Includes(SubSeq(lower, i, k), "\n")
              /\ ~Includes(SubSeq(lower, i, k), "\r")

transitionPatterns == <<
  [first |-> "excit", alts |-> <<"surprise", "worry", "amaze", "shock">>,
   result |-> "excitement to surprised worry"],
  [first |-> "happy", alts |-> <<"sad", "worry", "fear">>,
   result |-> "happiness to concern"],
  [first |-> "curious", alts |-> <<"excit", "amaze", "delight">>,
   result |-> "curiosity to amazement"],
  [first |-> "calm", alts |-> <<"excit", "worry", "alert">>,
   result |-> "calm to alert excitement"],
  [first |-> "brave", alts |-> <<"triumph", "proud", "happy">>,
   result |-> "bravery to triumph"]
>>

RECURSIVE FirstTransition(_, _)
FirstTransition(lower, i) ==
  IF i > Len(transitionPatterns) THEN i
  ELSE IF RegexTest(lower, transitionPatterns[i].first,
                    transitionPatterns[i].alts) THEN i
  ELSE FirstTransition(lower, i + 1)

suddenEmotions == <<"surprised", "amazed", "worried", "excited", "shocked",
                    "delighted", "gasped">>

RECURSIVE FirstIncluded(_, _, _)
FirstIncluded(words, lower, i) ==
  IF i > Len(words) THEN i
  ELSE IF Includes(lower, words[i]) THEN i
  ELSE FirstIncluded(words, lower, i + 1)

singleEmotions == <<
  [keywords |-> <<"awe", "excitement">>,
   expression |-> "awe and excitement"],
  [keywords |-> <<"joy", "laughter">>,
   expression |-> "joy and laughter"],
  [keywords |-> <<"wonder", "curiosity">>,
   expression |-> "wonder and curiosity"],
  [keywords |-> <<"gentle", "gently", "kindly", "softly">>,
   expression |-> "gentle kindness"],
  [keywords |-> <<"laughing", "laughter", "giggling">>,
   expression |-> "joyful laughter"],
  [keywords |-> <<"excited", "thrilled">>,
   expression |-> "excitement"],
  [keywords |-> <<"amazed", "astonished">>,
   expression |-> "amazement"],
  [keywords |-> <<"awe", "wonder">>,
   expression |-> "awe and wonder"],
  [keywords |-> <<"happy", "joyful", "cheerful">>,
   expression |-> "joy and happiness"],
  [keywords |-> <<"brave", "courageous">>,
   expression |-> "bravery"],
  [keywords |-> <<"worried", "concerned">>,
   expression |-> "worry"],
  [keywords |-> <<"curious">>,
   expression |-> "curiosity"],
  [keywords |-> <<"proud">>,
   expression |-> "pride"],
  [keywords |-> <<"triumph", "victorious">>,
   expression |-> "triumph"],
  [keywords |-> <<"peaceful", "calm">>,
   expression |-> "peaceful calm"]
>>

DefaultTransition == "wonder and excitement"

\* the sudden-change marker tested before the transition patterns
extractEmotionalTransition_suddenFirst(chapterText) ==
  LET chapterLower == ToLowerCase(chapterText)
      t == FirstTransition(chapterLower, 1)
      e == FirstIncluded(suddenEmotions, chapterLower, 1)
      s == FirstAny(singleEmotions, chapterLower, 1)
  IN  IF Includes(chapterLower, "suddenly")
         \/ Includes(chapterLower, "just then")
      THEN IF e <= Len(suddenEmotions)
           THEN "surprise and " \o suddenEmotions[e]
           ELSE "surprise and wonder"
      ELSE IF t <= Len(transitionPatterns) THEN transitionPatterns[t].result
      ELSE IF s <= Len(singleEmotions) THEN singleEmotions[s].expression
      ELSE DefaultTransition

extractEmotionalTransition(chapterText) ==
  LET chapterLower == ToLowerCase(chapterText)
      t == FirstTransition(chapterLower, 1)
      e == FirstIncluded(suddenEmotions, chapterLower, 1)
      s == FirstAny(singleEmotions, chapterLower, 1)
  IN  IF t <= Len(transitionPatterns) THEN transitionPatterns[t].result
      ELSE IF Includes(chapterLower, "suddenly")
              \/ Includes(chapterLower, "just then")
      THEN IF e <= Len(suddenEmotions)
           THEN "surprise and " \o suddenEmotions[e]
           ELSE "surprise and wonder"
      ELSE IF s <= Len(singleEmotions) THEN singleEmotions[s].expression
      ELSE DefaultTransition

environments == <<"garden", "forest", "meadow", "field", "castle",
  "palace", "ocean", "sea", "beach", "mountain", "cave", "river", "lake",
  "stream", "village", "town", "city", "sky", "clouds", "space", "room",
  "house", "door", "gate", "path", "road", "bridge", "archway", "portal">>

nature == <<"tree", "oak tree", "flower", "moonpetal", "blossom",
  "sunflower", "rose", "grass", "leaf", "branch", "mushroom", "stone",
  "pebble", "rock", "water", "sun", "moon", "star", "rainbow", "moss",
  "petals">>

creatures == <<"bird", "butterfly", "bee", "caterpillar", "rabbit",
  "squirrel", "owl", "dragon", "unicorn", "fairy", "pixie", "sprite",
  "glimmerwing", "pip", "fish", "whale", "dolphin", "firefly">>

objects == <<"crown", "wand", "sword", "book", "crystal", "gem",
  "treasure", "door", "window", "lantern", "candle", "basket", "cup",
  "pebble", "locket", "vines", "giggle-vines", "shovel">>

allNouns == environments \o nature \o creatures \o objects

extractSceneNouns(chapterText) ==
  LET chapterLower == ToLowerCase(chapterText)
  IN  SelectSeq(allNouns, LAMBDA noun : Includes(chapterLower, noun))

actionPatterns == <<
  [keywords |-> <<"digging", "shovel">>,
   description |-> "digging with a small shovel"],
  [keywords |-> <<"holding", "pebble">>,
   description |-> "holding a glowing pebble close"],
  [keywords |-> <<"humming", "singing">>,
   description |-> "humming a gentle melody"],
  [keywords |-> <<"weaving", "vines">>,
   description |-> "gently weaving apart vines"],
  [keywords |-> <<"carrying", "carried", "holding", "held", "cupped hands">>,
   description |-> "gently holding something in cupped hands"],
  [keywords |-> <<"kneeling", "kneel", "crouching">>,
   description |-> "kneeling down"],
  [keywords |-> <<"reaching", "reaching out", "extending">>,
   description |-> "reaching out with one hand"],
  [keywords |-> <<"pointing", "pointed">>,
   description |-> "pointing excitedly"],
  [keywords |-> <<"hugging", "embracing">>,
   description |-> "hugging warmly"],
  [keywords |-> <<"offering", "offered", "giving", "gave">>,
   description |-> "offering something with both hands"],
  [keywords |-> <<"climbing", "climbed">>,
   description |-> "climbing carefully"],
  [keywords |-> <<"jumping", "jumped", "leaping">>,
   description |-> "jumping with joy"],
  [keywords |-> <<"running", "ran">>,
   description |-> "running energetically"],
  [keywords |-> <<"walking", "walked">>,
   description |-> "walking forward confidently"],
  [keywords |-> <<"sitting", "sat">>,
   description |-> "sitting comfortably"],
  [keywords |-> <<"standing", "stood">>,
   description |-> "standing upright"],
  [keywords |-> <<"looking", "searching", "watching">>,
   description |-> "looking ahead curiously"],
  [keywords |-> <<"waving", "waved">>,
   description |-> "waving cheerfully"],
  [keywords |-> <<"dancing", "danced">>,
   description |-> "dancing happily"]
>>

DefaultAction == "standing with a friendly pose"

extractPhysicalActions(chapterText) ==
  LET chapterLower == ToLowerCase(chapterText)
      i == FirstAny(actionPatterns, chapterLower, 1)
  IN  IF i <= Len(actionPatterns) THEN actionPatterns[i].description
      ELSE DefaultAction

emotionPatterns == <<
  [keywords |-> <<"excited", "excitement", "thrilled">>,
   expression |-> "beaming with excitement"],
  [keywords |-> <<"amazed", "astonished", "surprised">>,
   expression |-> "looking amazed and wide-eyed"],
  [keywords |-> <<"happy", "joyful", "delighted">>,
   expression |-> "smiling joyfully"],
  [keywords |-> <<"gentle", "gently", "softly", "carefully">>,
   expression |-> "smiling gently and kindly"],
  [keywords |-> <<"brave", "courageous", "determined">>,
   expression |-> "showing brave determination"],
  [keywords |-> <<"curious", "wondering", "puzzled">>,
   expression |-> "looking curious and thoughtful"],
  [keywords |-> <<"proud">>,
   expression |-> "smiling proudly"],
  [keywords |-> <<"grateful", "thankful">>,
   expression |-> "smiling warmly with gratitude"],
  [keywords |-> <<"worried", "concerned">>,
   expression |-> "looking concerned but hopeful"],
  [keywords |-> <<"peaceful", "calm", "relaxed">>,
   expression |-> "smiling peacefully"]
>>

DefaultEmotion == "smiling warmly"

extractEmotion(chapterText) ==
  LET chapterLower == ToLowerCase(chapterText)
      i == FirstAny(emotionPatterns, chapterLower, 1)
  IN  IF i <= Len(emotionPatterns) THEN emotionPatterns[i].expression
      ELSE DefaultEmotion

\* sceneNouns.some(n => [..].includes(n))
SomeIn(xs, S) == \E i \in 1..Len(xs) : xs[i] \in S

\* sceneNouns.filter(n => [..].includes(n))
FilterIn(xs, S) == SelectSeq(xs, LAMBDA n : n \in S)

\* a family listing up to 4 of its nouns
FamilyScene_sliceFour(sceneNouns, label, members, filler) ==
  LET elems == FilterIn(sceneNouns, members)
  IN  label \o (IF Len(elems) > 0 THEN " " \o Join(Slice(elems, 4), ", ")
                ELSE filler)

\* one environment family: its label, then up to 3 of its nouns or its filler
FamilyScene(sceneNouns, label, members, filler) ==
  LET elems == FilterIn(sceneNouns, members)
  IN  label \o (IF Len(elems) > 0 THEN " " \o Join(Slice(elems, 3), ", ")
                ELSE filler)

buildSceneDescription(sceneNouns) ==
  IF Len(sceneNouns) = 0 THEN "a colorful magical storybook setting"
  ELSE
  LET hasGarden == SomeIn(sceneNouns,
                     {"garden", "flower", "sunflower", "blossom", "backyard"})
      hasForest == SomeIn(sceneNouns, {"forest", "tree", "woods", "oak tree"})
      hasMagicalForest == SomeIn(sceneNouns,
                     {"glowing", "moonpetal", "starlight", "portal", "archway"})
      hasStream == SomeIn(sceneNouns, {"stream", "starlight stream"})
      hasWater == SomeIn(sceneNouns, {"ocean", "sea", "river", "lake", "water"})
      hasCreatures == SomeIn(sceneNouns,
                     {"butterfly", "caterpillar", "bird", "pixie", "fairy",
                      "sprite", "glimmerwing"})
      scene ==
        IF hasMagicalForest
        THEN FamilyScene(sceneNouns, "glowing magical forest with",
               {"moonpetal", "starlight", "portal", "archway", "sprite",
                "glimmerwing", "petals"},
               " sparkling trees and enchanted flowers")
        ELSE IF hasStream
        THEN FamilyScene(sceneNouns, "sparkling stream scene with",
               {"vines", "giggle-vines", "moonpetal", "flowers", "forest"},
               " flowing water and magical plants")
        ELSE IF hasGarden
        THEN FamilyScene(sceneNouns, "sunny garden with",
               {"sunflower", "flower", "blossom", "grass", "rainbow",
                "butterfly", "caterpillar", "oak tree", "pebble", "moss"},
               " colorful flowers and green grass")
        ELSE IF hasForest
        THEN FamilyScene(sceneNouns, "enchanted forest with",
               {"tree", "oak tree", "mushroom", "leaf", "owl", "squirrel",
                "moss", "petals"},
               " tall trees and magical plants")
        ELSE IF hasWater
        THEN FamilyScene(sceneNouns, "water scene with",
               {"fish", "coral", "wave", "dolphin", "whale"},
               " sparkling water and aquatic life")
        ELSE Join(Slice(sceneNouns, 3), ", ")
      found == FilterIn(sceneNouns,
                 {"butterfly", "caterpillar", "bird", "pixie", "fairy", "bee"})
  IN  IF hasCreatures /\ ~Includes(scene, "butterfly")
         /\ ~Includes(scene, "caterpillar") /\ Len(found) > 0
      THEN scene \o " and " \o found[1]
      ELSE scene

\* the parameters buildChapterSpecificPrompt hands to the validator and to
\* the template builder
promptParams(chapterElements, childName, age, gender, chapterNumber) ==
  [childName |-> childName,
   age |-> age,
   gender |-> gender,
   visualPose |-> extractVisualPose(chapterElements.chapterText),
   emotion |-> extractEmotionalTransition(chapterElements.chapterText),
   sceneContext |-> extractSceneContext(chapterElements.chapterText),
   environment |-> IF Len(chapterElements.settings) > 0
                   THEN Join(chapterElements.settings, ", ")
                   ELSE "simple colorful storybook setting",
   chapterNumber |-> chapterNumber,
   chapterText |-> chapterElements.chapterText,
   useSceneComposition |-> TRUE]

\* fail-closed variant: no prompt when the validator reports something
buildChapterSpecificPrompt_blocking(chapterElements, childName, age, gender, chapterNumber) ==
  LET params == promptParams(chapterElements, childName, age, gender,
                             chapterNumber)
  IN  [finalPrompt |-> IF Len(validatePromptParams(params)) > 0 THEN ""
                       ELSE buildStorybookPrompt(params),
       logged |-> validatePromptParams(params)]

\* returns the prompt; the validation warnings are only written to the log
buildChapterSpecificPrompt(chapterElements, childName, age, gender, chapterNumber) ==
  LET params == promptParams(chapterElements, childName, age, gender,
                             chapterNumber)
  IN  [finalPrompt |-> buildStorybookPrompt(params),
       logged |-> validatePromptParams(params)]

\* sceneCompositionBuilder.ts, generatePromptFromAnalysis: params carries no
\* chapterNumber, chapterText or useSceneComposition, so buildStorybookPrompt
\* applies its destructuring defaults 1, '' and true
generatePromptFromAnalysis(chapterElements, childData) ==
  buildStorybookPrompt(
    [childName |-> childData.childName,
     age |-> childData.age,
     gender |-> childData.gender,
     visualPose |-> extractVisualPose(chapterElements.chapterText),
     emotion |-> extractEmotionalTransition(chapterElements.chapterText),
     sceneContext |-> extractSceneContext(chapterElements.chapterText),
     environment |-> IF Len(chapterElements.settings) > 0
                     THEN Join(chapterElements.settings, ", ")
                     ELSE "simple colorful storybook setting",
     chapterNumber |-> 1,
     chapterText |-> "",
     useSceneComposition |-> TRUE])

\* chapters.map(..)
generateBatchPrompts(chapters, childData) ==
  [i \in 1..Len(chapters) |-> generatePromptFromAnalysis(chapters[i], childData)]

(***************************************************************************)
(* Inputs.                                                                 *)
(***************************************************************************)
Sentences == <<
  "Anya kneels near the old oak tree, gently holding a glowing, rainbow-colored pebble with awe.",
  "She was kneeling, holding the glowing pebble.",
  "Holding a crystal gem stone.",
  "Standing and pointing.",
  "He felt worried about the danger.",
  "Suddenly Pip was waving.",
  "Excited, she ran to a surprise.",
  "Nothing much.",
  "Finally they return home by the stream with a bird."
>>

\* the sentences with the given indices, in table order, separated by blanks
RECURSIVE TextOf(_, _)
TextOf(S, i) ==
  IF i > Len(Sentences) THEN ""
  ELSE IF i \in S
       THEN Sentences[i]
            \o (IF \E j \in S : j > i THEN " " ELSE "")
            \o TextOf(S, i + 1)
       ELSE TextOf(S, i + 1)

\* chapter texts: the empty text and up to MaxSentences sentences
Texts ==
  {TextOf(S, 1) : S \in {T \in SUBSET (1..Len(Sentences)) :
                           Cardinality(T) <= MaxSentences}}

\* short sentences that exercise the theme, element, context and noun tables
LexiconSentences == <<
  "She found it.",
  "Please help fix it.",
  "They celebrate the victory.",
  "So much danger.",
  "Finally home.",
  "A long journey.",
  "Pip the pixie sprite sat on her shoulder.",
  "Birds sang at the portal.",
  "A garden flower in the grass under a rainbow on moss.",
  "The forest stream by the sea.",
  "A happy, quiet secret.",
  "Flying and floating while running."
>>

\* the sentences of a table with the given indices, in table order
RECURSIVE TextFrom(_, _, _)
TextFrom(table, S, i) ==
  IF i > Len(table) THEN ""
  ELSE IF i \in S
       THEN table[i]
            \o (IF \E j \in S : j > i THEN " " ELSE "")
            \o TextFrom(table, S, i + 1)
       ELSE TextFrom(table, S, i + 1)

LexiconTexts ==
  {TextFrom(LexiconSentences, S, 1) :
     S \in {T \in SUBSET (1..Len(LexiconSentences)) :
              Cardinality(T) <= MaxSentences}}

ChapterNumbers == 1..MaxChapter

\* the themes of ChapterContext, and one value outside the union
ThemeValues == {"discovery", "problem-solving", "joyful-ending", "adventure",
                "conflict", "resolution", "unknown"}

Identities == {
  [childName |-> "Anya", age |-> 6, gender |-> "girl"],
  [childName |-> "Anya", age |-> 99, gender |-> "girl"],
  [childName |-> "Leo", age |-> 7, gender |-> "boy"]
}

\* sequences over S of length at most n
SeqsUpTo(S, n) == UNION {[1..k -> S] : k \in 0..n}

ParamsSet ==
  [childName : {"Anya", " "},
   age : {0, 1, 2, 12, 13, 99},
   gender : {"boy", "girl", "other"},
   visualPose : {"sitting comfortably", ""},
   emotion : {"joy and laughter", " "},
   sceneContext : {"cheerful birds perch nearby", "", " "},
   environment : {"forest, garden", ""},
   chapterNumber : ChapterNumbers,
   chapterText : {"", "He felt worried about the danger."},
   useSceneComposition : BOOLEAN]

ElementsSet ==
  [characterPose : {"kneeling down on one knee", "sitting comfortably"},
   emotion : {"awe and wonder", "worry"},
   objects : SeqsUpTo({"floating crystals", "glowing stars"}, MaxListLen),
   settings : SeqsUpTo({"sunny garden with flowers",
                        "soft magical glow in the air"}, MaxListLen),
   cameraAngle : {<<>>, <<"mid-shot, eye level">>},
   lighting : {<<>>, <<"diffused light with dramatic shadows">>}]

\* a chapter of a boy's story that brings a companion character in
PronounTexts == {"Pip the pixie sprite sat on his shoulder."}

\* the chapter texts of the batches
BatchTexts == {"He felt worried about the danger.", "Finally home."}

\* the child the batches are generated for
BatchChild == [childName |-> "Leo", age |-> 7, gender |-> "boy"]

\* batches of analysed chapters, in story order
Batches ==
  {[i \in DOMAIN texts |-> analyzeChapterElements(texts[i])] :
     texts \in SeqsUpTo(BatchTexts, MaxListLen)}

TextOps == {"analyzeChapterElements", "extractVisualPose",
            "extractSceneContext", "extractEmotionalTransition",
            "extractSceneNouns", "extractPhysicalActions", "extractEmotion"}

LexiconOps == {"analyzeChapterElements", "extractSceneContext",
               "extractSceneNouns"}

Calls ==
       {[op |-> o, chapterText |-> t] : o \in TextOps, t \in Texts}
  \cup {[op |-> o, chapterText |-> t] : o \in LexiconOps, t \in LexiconTexts}
  \cup {[op |-> "detectChapterTheme", chapterText |-> t, chapterNumber |-> n] :
          t \in Texts \cup LexiconTexts, n \in ChapterNumbers}
  \cup {[op |-> "getCameraAndLighting", chapterNumber |-> n,
         chapterTheme |-> th] : n \in ChapterNumbers, th \in ThemeValues}
  \cup {[op |-> "buildSceneDescription", sceneNouns |-> extractSceneNouns(t)] :
          t \in Texts \cup LexiconTexts}
  \cup {[op |-> "buildSceneComposition", elements |-> e] : e \in ElementsSet}
  \cup {[op |-> "generateBatchPrompts", chapters |-> b, childData |-> id] :
          b \in Batches, id \in {BatchChild}}
  \cup {[op |-> o, params |-> p] :
          o \in {"buildStorybookPrompt", "validatePromptParams"},
          p \in ParamsSet}
  \cup {[op |-> "buildChapterSpecificPrompt", chapterText |-> t,
         identity |-> id, chapterNumber |-> n] :
          t \in Texts \cup PronounTexts, id \in Identities,
          n \in ChapterNumbers}

(***************************************************************************)
(* The state machine: one invocation, then its return.                     *)
(***************************************************************************)
\* no interleaved invocation exists
NoTasks ==
  /\ args = <<>>
  /\ step = <<>>
  /\ locals = <<>>
  /\ returned = <<>>
  /\ console = 0

\* the router has served no request
NoRequests ==
  /\ sessionStorage = <<>>
  /\ response = [route |-> "none", sessionId |-> 0, status |-> 0,
                 served |-> FALSE, storeChanged |-> FALSE]
  /\ pdfGenerated = {}

Init ==
  /\ call \in Calls
  /\ pc = "called"
  /\ ret = ""
  /\ NoTasks
  /\ NoRequests

Return(op, value) ==
  /\ pc = "called"
  /\ call.op = op
  /\ ret' = value
  /\ pc' = "returned"
  /\ UNCHANGED <<call, engineVars, routeVars>>

AnalyzeChapterElements ==
  Return("analyzeChapterElements", analyzeChapterElements(call.chapterText))

ExtractVisualPose ==
  Return("extractVisualPose", extractVisualPose(call.chapterText))

ExtractSceneContext ==
  Return("extractSceneContext", extractSceneContext(call.chapterText))

ExtractEmotionalTransition ==
  Return("extractEmotionalTransition",
         extractEmotionalTransition(call.chapterText))

ExtractSceneNouns ==
  Return("extractSceneNouns", extractSceneNouns(call.chapterText))

ExtractPhysicalActions ==
  Return("extractPhysicalActions", extractPhysicalActions(call.chapterText))

ExtractEmotion ==
  Return("extractEmotion", extractEmotion(call.chapterText))

DetectChapterTheme ==
  Return("detectChapterTheme",
         detectChapterTheme(call.chapterText, call.chapterNumber))

GetCameraAndLighting ==
  Return("getCameraAndLighting",
         getCameraAndLighting([chapterNumber |-> call.chapterNumber,
                               chapterTheme |-> call.chapterTheme]))

BuildSceneDescription ==
  Return("buildSceneDescription", buildSceneDescription(call.sceneNouns))

BuildSceneComposition ==
  Return("buildSceneComposition", buildSceneComposition(call.elements))

BuildStorybookPrompt ==
  Return("buildStorybookPrompt", buildStorybookPrompt(call.params))

ValidatePromptParams ==
  Return("validatePromptParams", validatePromptParams(call.params))

BuildChapterSpecificPrompt ==
  Return("buildChapterSpecificPrompt",
         buildChapterSpecificPrompt(analyzeChapterElements(call.chapterText),
                                    call.identity.childName,
                                    call.identity.age,
                                    call.identity.gender,
                                    call.chapterNumber))

GenerateBatchPrompts ==
  Return("generateBatchPrompts",
         generateBatchPrompts(call.chapters, call.childData))

Next ==
  \/ GenerateBatchPrompts
  \/ AnalyzeChapterElements
  \/ ExtractVisualPose
  \/ ExtractSceneContext
  \/ ExtractEmotionalTransition
  \/ ExtractSceneNouns
  \/ ExtractPhysicalActions
  \/ ExtractEmotion
  \/ DetectChapterTheme
  \/ GetCameraAndLighting
  \/ BuildSceneDescription
  \/ BuildSceneComposition
  \/ BuildStorybookPrompt
  \/ ValidatePromptParams
  \/ BuildChapterSpecificPrompt

Spec == Init /\ [][Next]_vars

Returned(op) == pc = "returned" /\ call.op = op

(***************************************************************************)
(* Interleaved invocations of the engine.  JavaScript runs each synchronous *)
(* call to completion; the steps below are finer than that, one per        *)
(* statement of buildChapterSpecificPrompt, and may interleave freely.     *)
(***************************************************************************)
Tasks == 1..MaxTasks

\* the chapters handed to the invocations: a chapter of one child's story
\* and a chapter of another child's story
TaskInputs == {
  [chapterText |-> Sentences[1],
   identity |-> [childName |-> "Anya", age |-> 6, gender |-> "girl"],
   chapterNumber |-> 1],
  [chapterText |-> "He felt worried about the danger.",
   identity |-> [childName |-> "Leo", age |-> 99, gender |-> "boy"],
   chapterNumber |-> 2]
}

\* the locals of an invocation before its first statement
NewFrame ==
  [chapterElements |-> [settings |-> <<>>, chapterText |-> ""],
   visualPose |-> "", emotion |-> "", sceneContext |-> "",
   environment |-> "", validationErrors |-> <<>>, finalPrompt |-> ""]

\* every invocation shares one set of locals
Frame_moduleLevel(t) == 1

\* const and let inside the function body: one frame per invocation
Frame(t) == t

EngineInit ==
  /\ call = [op |-> "none"]
  /\ pc = "idle"
  /\ ret = ""
  /\ args \in [Tasks -> TaskInputs]
  /\ step = [t \in Tasks |-> "called"]
  /\ locals = [t \in Tasks |-> NewFrame]
  /\ returned = [t \in Tasks |-> ""]
  /\ console = 0
  /\ NoRequests

\* one statement of invocation t: from position a to position b, writing
\* one local of its frame
Statement(t, a, b, frame) ==
  /\ step[t] = a
  /\ step' = [step EXCEPT ![t] = b]
  /\ locals' = [locals EXCEPT ![Frame(t)] = frame]
  /\ UNCHANGED <<call, ret, pc, args, returned, console, routeVars>>

\* the caller's analyzeChapterElements(chapter.chapterText)
AnalyzeStep(t) ==
  Statement(t, "called", "analyzed",
            [locals[Frame(t)] EXCEPT
               !.chapterElements = analyzeChapterElements(args[t].chapterText)])

VisualPoseStep(t) ==
  Statement(t, "analyzed", "visualPose",
            [locals[Frame(t)] EXCEPT
               !.visualPose =
                  extractVisualPose(locals[Frame(t)].chapterElements.chapterText)])

EmotionStep(t) ==
  Statement(t, "visualPose", "emotion",
            [locals[Frame(t)] EXCEPT
               !.emotion = extractEmotionalTransition(
                             locals[Frame(t)].chapterElements.chapterText)])

SceneContextStep(t) ==
  Statement(t, "emotion", "sceneContext",
            [locals[Frame(t)] EXCEPT
               !.sceneContext = extractSceneContext(
                                  locals[Frame(t)].chapterElements.chapterText)])

EnvironmentStep(t) ==
  Statement(t, "sceneContext", "environment",
            [locals[Frame(t)] EXCEPT
               !.environment =
                  IF Len(locals[Frame(t)].chapterElements.settings) > 0
                  THEN Join(locals[Frame(t)].chapterElements.settings, ", ")
                  ELSE "simple colorful storybook setting"])

\* the promptParams object literal, built from the locals
FrameParams(t) ==
  LET f == locals[Frame(t)] IN
  [childName |-> args[t].identity.childName,
   age |-> args[t].identity.age,
   gender |-> args[t].identity.gender,
   visualPose |-> f.visualPose,
   emotion |-> f.emotion,
   sceneContext |-> f.sceneContext,
   environment |-> f.environment,
   chapterNumber |-> args[t].chapterNumber,
   chapterText |-> f.chapterElements.chapterText,
   useSceneComposition |-> TRUE]

\* validatePromptParams and the console.warn of its errors
ValidateStep(t) ==
  LET errors == validatePromptParams(FrameParams(t)) IN
  /\ step[t] = "environment"
  /\ step' = [step EXCEPT ![t] = "validated"]
  /\ locals' = [locals EXCEPT ![Frame(t)].validationErrors = errors]
  /\ console' = IF Len(errors) > 0 THEN console + 1 ELSE console
  /\ UNCHANGED <<call, ret, pc, args, returned, routeVars>>

BuildStep(t) ==
  Statement(t, "validated", "finalPrompt",
            [locals[Frame(t)] EXCEPT
               !.finalPrompt = buildStorybookPrompt(FrameParams(t))])

\* the debug logging and return finalPrompt
ReturnStep(t) ==
  /\ step[t] = "finalPrompt"
  /\ step' = [step EXCEPT ![t] = "returned"]
  /\ returned' = [returned EXCEPT ![t] = locals[Frame(t)].finalPrompt]
  /\ console' = console + 7
  /\ UNCHANGED <<call, ret, pc, args, locals, routeVars>>

EngineNext ==
  \/ \E t \in Tasks : AnalyzeStep(t)
  \/ \E t \in Tasks : VisualPoseStep(t)
  \/ \E t \in Tasks : EmotionStep(t)
  \/ \E t \in Tasks : SceneContextStep(t)
  \/ \E t \in Tasks : EnvironmentStep(t)
  \/ \E t \in Tasks : ValidateStep(t)
  \/ \E t \in Tasks : BuildStep(t)
  \/ \E t \in Tasks : ReturnStep(t)

EngineSpec == EngineInit /\ [][EngineNext]_vars

(***************************************************************************)
(* src/routes/index.ts: the session routes.  Each action is one request    *)
(* handled from arrival to answer; the outcome of every external service   *)
(* (story generator, cloud upload, PDF generator) is chosen freely.        *)
(***************************************************************************)
SessionIds == 1..MaxSessions

\* a request that carries no sessionId
NoSessionId == 0

\* what sessionStorage.set(sessionId, {childData, storyResult,
\* analysisResult, timestamp}) of POST /story/generate stores
StorySession ==
  [old |-> FALSE, uploadResult |-> FALSE, storyResult |-> "generated",
   analysisResult |-> "generated", generatedImages |-> FALSE,
   pdfFilename |-> "none"]

\* the basic session POST /upload creates for an unknown sessionId
UploadOnlySession ==
  [old |-> FALSE, uploadResult |-> FALSE, storyResult |-> "none",
   analysisResult |-> "none", generatedImages |-> FALSE,
   pdfFilename |-> "none"]

\* Map.prototype.set
MapSet(store, id, data) ==
  [k \in DOMAIN store \cup {id} |-> IF k = id THEN data ELSE store[k]]

\* the loop deleting the sessions older than one hour
CleanUp(store) ==
  [k \in {j \in DOMAIN store : ~store[j].old} |-> store[k]]

\* uuidv4(): an id no session has
FreshIds == SessionIds \ DOMAIN sessionStorage

\* res.status(status).json(..) or the streamed file, and the resulting store
Answer(route, sessionId, status, served, store) ==
  /\ response' = [route |-> route, sessionId |-> sessionId,
                  status |-> status, served |-> served,
                  storeChanged |-> store # sessionStorage]
  /\ sessionStorage' = store
  /\ UNCHANGED <<call, ret, pc, engineVars>>

RouteInit ==
  /\ call = [op |-> "none"]
  /\ pc = "idle"
  /\ ret = ""
  /\ NoTasks
  /\ NoRequests

\* one hour goes by: every stored timestamp is now older than oneHourAgo
HourPasses ==
  /\ \E k \in DOMAIN sessionStorage : ~sessionStorage[k].old
  /\ sessionStorage' = [k \in DOMAIN sessionStorage |->
                          [sessionStorage[k] EXCEPT !.old = TRUE]]
  /\ UNCHANGED <<call, ret, pc, engineVars, response, pdfGenerated>>

\* the generated PDF file disappears from the server's disk
PdfFileRemoved ==
  /\ \E k \in DOMAIN sessionStorage :
       /\ sessionStorage[k].pdfFilename = "onDisk"
       /\ sessionStorage' = [sessionStorage EXCEPT ![k].pdfFilename = "missing"]
  /\ UNCHANGED <<call, ret, pc, engineVars, response, pdfGenerated>>

PostStoryGenerate ==
  /\ UNCHANGED pdfGenerated
  /\ \E valid, generated \in BOOLEAN :
       IF ~valid
       THEN Answer("story/generate", NoSessionId, 400, FALSE, sessionStorage)
       ELSE IF ~generated
       THEN Answer("story/generate", NoSessionId, 500, FALSE, sessionStorage)
       ELSE \E sessionId \in FreshIds :
              Answer("story/generate", sessionId, 200, FALSE,
                     CleanUp(MapSet(sessionStorage, sessionId, StorySession)))

\* how far an upload request gets: refused by multer, no file attached,
\* file too large, cloud upload failed, or uploaded
UploadOutcomes == {"multerError", "noFile", "tooLarge", "uploadFailed",
                   "uploaded"}

\* the handler after multer: sessionId is the id of the body or a new one
UploadWith(sessionId, outcome) ==
  LET known == sessionId \in DOMAIN sessionStorage
      sessionData == IF known THEN sessionStorage[sessionId]
                     ELSE UploadOnlySession
      store == MapSet(sessionStorage, sessionId, sessionData)
  IN  IF outcome = "noFile" THEN Answer("upload", sessionId, 400, FALSE, store)
      ELSE IF outcome = "tooLarge"
      THEN Answer("upload", sessionId, 400, FALSE, store)
      ELSE IF outcome = "uploadFailed"
      THEN Answer("upload", sessionId, 500, FALSE, store)
      ELSE Answer("upload", sessionId, 200, FALSE,
                  MapSet(store, sessionId,
                         [sessionData EXCEPT !.uploadResult = TRUE]))

PostUpload ==
  /\ UNCHANGED pdfGenerated
  /\ \E outcome \in UploadOutcomes :
     \E given \in SessionIds \cup {NoSessionId} :
       IF outcome = "multerError"
       THEN Answer("upload", given, 400, FALSE, sessionStorage)
       ELSE IF given # NoSessionId
       THEN UploadWith(given, outcome)
       ELSE \E sessionId \in FreshIds : UploadWith(sessionId, outcome)

\* sessionData is the stored object itself: the assignments of
\* existingStory and existingAnalysis are made in the store at once.  With
\* no uploadResult the read of uploadResult.url throws in every image
\* promise, in its try block and again in its catch block, so Promise.all
\* rejects and the outer catch answers 500.
PostCharacterGenerate ==
  /\ UNCHANGED pdfGenerated
  /\ \E sessionId \in SessionIds \cup {NoSessionId} :
     \E existingStory, existingAnalysis \in BOOLEAN :
       IF sessionId = NoSessionId
       THEN Answer("character/generate", sessionId, 400, FALSE, sessionStorage)
       ELSE IF sessionId \notin DOMAIN sessionStorage
       THEN Answer("character/generate", sessionId, 404, FALSE, sessionStorage)
       ELSE LET sessionData ==
                  [sessionStorage[sessionId] EXCEPT
                     !.storyResult = IF existingStory THEN "existing" ELSE @,
                     !.analysisResult = IF existingAnalysis THEN "existing"
                                        ELSE @]
            IN  IF ~sessionData.uploadResult
                THEN Answer("character/generate", sessionId, 500, FALSE,
                            MapSet(sessionStorage, sessionId, sessionData))
                ELSE Answer("character/generate", sessionId, 200, FALSE,
                            MapSet(sessionStorage, sessionId,
                                   [sessionData EXCEPT !.generatedImages = TRUE]))

PostPdfGenerate ==
  \E sessionId \in SessionIds \cup {NoSessionId} : \E created \in BOOLEAN :
    IF sessionId = NoSessionId
    THEN /\ Answer("pdf/generate", sessionId, 400, FALSE, sessionStorage)
         /\ UNCHANGED pdfGenerated
    ELSE IF sessionId \notin DOMAIN sessionStorage
    THEN /\ Answer("pdf/generate", sessionId, 404, FALSE, sessionStorage)
         /\ UNCHANGED pdfGenerated
    ELSE IF ~created
    THEN /\ Answer("pdf/generate", sessionId, 500, FALSE, sessionStorage)
         /\ UNCHANGED pdfGenerated
    ELSE /\ Answer("pdf/generate", sessionId, 200, FALSE,
                   [sessionStorage EXCEPT ![sessionId].pdfFilename = "onDisk"])
         /\ pdfGenerated' = pdfGenerated \cup {sessionId}

\* !(!sessionData || !sessionData.pdfFilename)
HasPdf(store, sessionId) ==
  sessionId \in DOMAIN store /\ store[sessionId].pdfFilename # "none"

\* the file of any stored session is streamed, generated or not
GetPdfDownload_anySession ==
  /\ UNCHANGED pdfGenerated
  /\ \E sessionId \in SessionIds :
       IF sessionId \notin DOMAIN sessionStorage
       THEN Answer("pdf/download", sessionId, 404, FALSE, sessionStorage)
       ELSE Answer("pdf/download", sessionId, 200, TRUE, sessionStorage)

GetPdfDownload ==
  /\ UNCHANGED pdfGenerated
  /\ \E sessionId \in SessionIds :
       IF ~HasPdf(sessionStorage, sessionId)
       THEN Answer("pdf/download", sessionId, 404, FALSE, sessionStorage)
       ELSE IF sessionStorage[sessionId].pdfFilename # "onDisk"
       THEN Answer("pdf/download", sessionId, 404, FALSE, sessionStorage)
       ELSE Answer("pdf/download", sessionId, 200, TRUE, sessionStorage)

GetSession ==
  /\ UNCHANGED pdfGenerated
  /\ \E sessionId \in SessionIds :
       IF sessionId \notin DOMAIN sessionStorage
       THEN Answer("session", sessionId, 404, FALSE, sessionStorage)
       ELSE Answer("session", sessionId, 200, FALSE, sessionStorage)

RouteNext ==
  \/ HourPasses
  \/ PdfFileRemoved
  \/ PostStoryGenerate
  \/ PostUpload
  \/ PostCharacterGenerate
  \/ PostPdfGenerate
  \/ GetPdfDownload
  \/ GetSession

RouteSpec == RouteInit /\ [][RouteNext]_vars

(***************************************************************************)
(* Properties.                                                             *)
(***************************************************************************)
KneelingPebblePose == posePatterns[1].pose

AnyaScenario ==
  /\ Returned("buildChapterSpecificPrompt")
  /\ call.chapterText = Sentences[1]
  /\ call.identity = [childName |-> "Anya", age |-> 6, gender |-> "girl"]
  /\ call.chapterNumber = 1

\* C1: in the end-to-end scenario (the Anya sentence, Anya/6/girl, chapter 1)
\* the scene line of the prompt contains the kneeling/pebble pose phrase, the
\* theme is discovery and the scene line carries the discovery camera and
\* lighting.
C1_EndToEndScenario ==
  AnyaScenario =>
    LET scene == Lines(ret.finalPrompt)[2] IN
    /\ StartsWith(scene, "Scene: ")
    /\ Includes(scene, KneelingPebblePose)
    /\ detectChapterTheme(call.chapterText, call.chapterNumber) = "discovery"
    /\ Includes(scene, "front view, slightly low angle")
    /\ Includes(scene, "warm sunlight with magical glows")

\* C2: on chapter 1 the detected theme is discovery whatever the text says.
C2_ThemePreemption ==
  (Returned("detectChapterTheme") /\ call.chapterNumber = 1)
    => ret = "discovery"

\* chapter 1, a text with conflict keywords and no discovery keyword
C2_Witness ==
  /\ Returned("detectChapterTheme")
  /\ call.chapterNumber = 1
  /\ IncludesAny(ToLowerCase(call.chapterText), ConflictKeywords)
  /\ ~IncludesAny(ToLowerCase(call.chapterText), DiscoveryKeywords)
  /\ ret = "discovery"

\* indices of the pose rules with at least n keywords, and with exactly one
RulesWithAtLeast(n) ==
  {i \in 1..Len(posePatterns) : Len(posePatterns[i].keywords) >= n}

OneKeywordRules ==
  {i \in 1..Len(posePatterns) : Len(posePatterns[i].keywords) = 1}

Fires(i, chapterText) ==
  IncludesAll(ToLowerCase(chapterText), posePatterns[i].keywords)

\* C3: when a text fires a pose rule of at least 3 keywords and also a
\* 1-keyword pose rule, the pose returned is the phrase of a rule with at
\* least 3 keywords.
C3_PriorityOrdering ==
  (/\ Returned("extractVisualPose")
   /\ \E i \in RulesWithAtLeast(3) : Fires(i, call.chapterText)
   /\ \E i \in OneKeywordRules : Fires(i, call.chapterText))
    => \E i \in RulesWithAtLeast(3) : ret = posePatterns[i].pose

LinesWith(s, prefix) ==
  LET lines == Lines(s)
  IN  {k \in 1..Len(lines) : StartsWith(lines[k], prefix)}

\* C4: the composition has a Midground line exactly when objects is
\* non-empty (no "Midground:" substring at all otherwise), and exactly one
\* Background line when settings is non-empty.
C4_LineSuppression ==
  Returned("buildSceneComposition") =>
    /\ Includes(ret, "Midground:") <=> Len(call.elements.objects) > 0
    /\ LinesWith(ret, "Midground:") # {} <=> Len(call.elements.objects) > 0
    /\ Len(call.elements.settings) > 0
         => Cardinality(LinesWith(ret, "Background:")) = 1

\* no objects and two settings
C4_Witness ==
  /\ Returned("buildSceneComposition")
  /\ Len(call.elements.objects) = 0
  /\ Len(call.elements.settings) = 2
  /\ ~Includes(ret, "Midground:")
  /\ Cardinality(LinesWith(ret, "Background:")) = 1

\* the prompt for the same feature inputs in the other mode
OtherMode(p) ==
  Lines(buildStorybookPrompt(
          [p EXCEPT !.useSceneComposition = ~p.useSceneComposition]))

\* the last n elements of a sequence
Last(xs, n) == SubSeq(xs, Len(xs) - n + 1, Len(xs))

\* C5 as stated: the two modes give prompts with the same number of lines
\* that agree on every line but the scene line.
C5_ModesDifferOnlyInSceneLine ==
  Returned("buildStorybookPrompt") =>
    LET a == Lines(ret)
        b == OtherMode(call.params)
    IN  /\ Len(a) = Len(b)
        /\ \A k \in 1..Len(a) : k # 2 => a[k] = b[k]

\* C5 amended: both modes give the same character-intro line and the same
\* closing style, likeness and keyword lines, and both have a scene line in
\* second place; the scene-composition prompt has exactly these 5 lines and
\* the legacy prompt has in addition one environment line, preceded by a
\* scene-context line when sceneContext is non-blank.
C5_ModeSwitchStability ==
  Returned("buildStorybookPrompt") =>
    LET this == Lines(ret)
        that == OtherMode(call.params)
        composed == IF call.params.useSceneComposition THEN this ELSE that
        legacy == IF call.params.useSceneComposition THEN that ELSE this
    IN  /\ Len(composed) = 5
        /\ Len(legacy) = (IF NonBlank(call.params.sceneContext) THEN 7 ELSE 6)
        /\ legacy[1] = composed[1]
        /\ StartsWith(legacy[2], "Scene: ") /\ StartsWith(composed[2], "Scene: ")
        /\ Last(legacy, 3) = Last(composed, 3)

\* a legacy prompt with a scene-context line, against its 5-line counterpart
C5_Witness ==
  /\ Returned("buildStorybookPrompt")
  /\ ~call.params.useSceneComposition
  /\ NonBlank(call.params.sceneContext)
  /\ Len(Lines(ret)) = 7
  /\ Len(OtherMode(call.params)) = 5

\* every check of the validator passes but the one on age
ValidButAge(p) ==
  /\ NonBlank(p.childName)
  /\ p.age < 2 \/ p.age > 12
  /\ p.gender \in {"boy", "girl"}
  /\ NonBlank(p.visualPose)
  /\ NonBlank(p.emotion)

\* a complete prompt: at least the five lines, intro first, keywords last
CompletePrompt(prompt) ==
  LET lines == Lines(prompt) IN
  /\ Len(lines) >= 5
  /\ StartsWith(lines[1], "Create a 3D plus digital sketch illustration")
  /\ StartsWith(lines[2], "Scene: ")
  /\ \E k \in 1..Len(lines) : lines[k] = StyleLine
  /\ \E k \in 1..Len(lines) : lines[k] = LikenessLine
  /\ StartsWith(lines[Len(lines)], "Keywords: ")

\* C6: with an out-of-range age and otherwise valid parameters the validator
\* returns a non-empty warning list, and buildStorybookPrompt and
\* buildChapterSpecificPrompt still return the complete prompt.
C6_ValidatorNonBlocking ==
  /\ (Returned("validatePromptParams") /\ ValidButAge(call.params))
       => Len(ret) > 0
  /\ (Returned("buildStorybookPrompt") /\ ValidButAge(call.params))
       => CompletePrompt(ret)
  /\ (Returned("buildChapterSpecificPrompt") /\ call.identity.age > 12)
       => /\ Len(ret.logged) > 0
          /\ CompletePrompt(ret.finalPrompt)

\* age 99: warnings are logged and the prompt is still there
C6_Witness ==
  /\ Returned("buildChapterSpecificPrompt")
  /\ call.identity.age = 99
  /\ ret.logged = <<"age must be between 2 and 12">>
  /\ Len(Lines(ret.finalPrompt)) = 5

TotalOps == {"extractVisualPose", "extractEmotionalTransition",
             "extractPhysicalActions", "extractEmotion",
             "buildSceneDescription"}

\* C7: extractVisualPose, extractEmotionalTransition, extractPhysicalActions,
\* extractEmotion and buildSceneDescription return a non-empty string for
\* every input, the empty one included.
C7_Totality ==
  (pc = "returned" /\ call.op \in TotalOps) => Len(ret) > 0

\* the empty text falls through to the default pose
C7_Witness ==
  /\ Returned("extractVisualPose")
  /\ call.chapterText = ""
  /\ ret = "standing with a warm, friendly expression"

\* the environment line of the legacy branch
EnvironmentLine(p) ==
  IF NonBlank(p.environment) THEN p.environment \o "."
  ELSE "A bright forest clearing glows with warm sunlight."

\* C9: a prompt starts with the character-intro line and the scene line and
\* ends with the style, likeness and keyword lines; the optional lines occur
\* only in legacy mode, between the scene line and the style line, scene
\* context before environment.
C9_FixedSectionOrder ==
  Returned("buildStorybookPrompt") =>
    LET lines == Lines(ret)
        n == Len(lines)
        p == call.params
    IN  /\ n >= 5
        /\ StartsWith(lines[1], "Create a 3D plus digital sketch illustration")
        /\ StartsWith(lines[2], "Scene: ")
        /\ lines[n - 2] = "Style: bold outlines (3-5 px), solid colors, clean shapes."
        /\ lines[n - 1] = "Preserve facial likeness, hairstyle, proportions, and clothing."
        /\ StartsWith(lines[n], "Keywords: ")
        /\ p.useSceneComposition => n = 5
        /\ (~p.useSceneComposition /\ NonBlank(p.sceneContext))
             => /\ n = 7
                /\ lines[3] = p.sceneContext \o "."
                /\ lines[4] = EnvironmentLine(p)
        /\ (~p.useSceneComposition /\ ~NonBlank(p.sceneContext))
             => /\ n = 6
                /\ lines[3] = EnvironmentLine(p)

\* a legacy prompt with both optional lines
C9_Witness ==
  /\ Returned("buildStorybookPrompt")
  /\ ~call.params.useSceneComposition
  /\ NonBlank(call.params.sceneContext)
  /\ NonBlank(call.params.environment)
  /\ Len(Lines(ret)) = 7
  /\ LinesWith(ret, call.params.environment) = {4}

\* the five checks, in the order of the warnings
ViolatedChecks(p) == <<
  [violated |-> Trim(p.childName) = "", warning |-> "childName is required"],
  [violated |-> ~(p.age >= 2 /\ p.age <= 12),
   warning |-> "age must be between 2 and 12"],
  [violated |-> p.gender # "boy" /\ p.gender # "girl",
   warning |-> "gender must be \"boy\" or \"girl\""],
  [violated |-> Trim(p.visualPose) = "", warning |-> "visualPose is required"],
  [violated |-> Trim(p.emotion) = "", warning |-> "emotion is required"]
>>

\* C10: the validator returns exactly the warnings of the violated checks, in
\* the order name, age, gender, pose, emotion; its result is empty exactly
\* when all five checks pass.
C10_ValidatorWarnings ==
  Returned("validatePromptParams") =>
    LET expected == SelectSeq(ViolatedChecks(call.params),
                              LAMBDA c : c.violated)
    IN  /\ Len(ret) = Len(expected)
        /\ \A k \in 1..Len(ret) : ret[k] = expected[k].warning
        /\ ret = <<>> <=> \A k \in 1..5 : ~ViolatedChecks(call.params)[k].violated

\* all five checks violated at once
C10_Witness ==
  /\ Returned("validatePromptParams")
  /\ Len(ret) = 5
  /\ ret[1] = "childName is required"
  /\ ret[5] = "emotion is required"

\* indices of the pose rules that fire on a text
FiringRules(chapterText) ==
  {i \in 1..Len(posePatterns) : Fires(i, chapterText)}

Min(S) == CHOOSE i \in S : \A j \in S : i <= j

\* C11: extractVisualPose returns the pose of the first rule, in list order,
\* all of whose keywords occur in the lowercased text; the pose of a rule
\* with a missing keyword is never returned; with no firing rule the result
\* is the default pose.
C11_FirstFiringRule ==
  Returned("extractVisualPose") =>
    LET F == FiringRules(call.chapterText) IN
    /\ F = {} => ret = "standing with a warm, friendly expression"
    /\ F # {} => ret = posePatterns[Min(F)].pose
    /\ \A i \in 1..Len(posePatterns) : ret = posePatterns[i].pose => i \in F

\* several rules fire and the earliest one wins
C11_Witness ==
  /\ Returned("extractVisualPose")
  /\ Cardinality(FiringRules(call.chapterText)) >= 2
  /\ ret = posePatterns[Min(FiringRules(call.chapterText))].pose

\* C12: when several pose rules fire on a text, the pose returned belongs to
\* a firing rule that has the greatest number of keywords among the firing
\* rules.
C12_MostSpecificFirst ==
  Returned("extractVisualPose") =>
    LET F == FiringRules(call.chapterText) IN
    F # {} =>
      \E i \in F :
        /\ ret = posePatterns[i].pose
        /\ \A j \in F : Len(posePatterns[j].keywords)
                          <= Len(posePatterns[i].keywords)

\* the theme rules in the order the claim lists them
ThemeOrder == <<"discovery", "problem-solving", "joyful-ending", "conflict",
                "resolution", "adventure">>

\* the rule of theme ThemeOrder[i] matches the call
ThemeMatches(i, chapterText, chapterNumber) ==
  LET lower == ToLowerCase(chapterText) IN
  CASE i = 1 -> \/ chapterNumber = 1
                \/ \E w \in {"discover", "found", "glowing", "mysterious"} :
                     Includes(lower, w)
    [] i = 2 -> \E w \in {"problem", "blocked", "help", "fix", "solve"} :
                  Includes(lower, w)
    [] i = 3 -> \E w \in {"bloom", "success", "celebrate", "triumph",
                          "victory", "saved"} : Includes(lower, w)
    [] i = 4 -> \E w \in {"worried", "danger", "challenge", "difficult"} :
                  Includes(lower, w)
    [] i = 5 -> \E w \in {"finally", "resolved", "peaceful", "return home"} :
                  Includes(lower, w)
    [] i = 6 -> \E w \in {"journey", "explore", "adventure", "followed"} :
                  Includes(lower, w)

MatchingThemes(chapterText, chapterNumber) ==
  {i \in 1..Len(ThemeOrder) : ThemeMatches(i, chapterText, chapterNumber)}

\* C13: detectChapterTheme returns the theme of the first matching rule in
\* the order discovery (keyword or chapter number 1), problem-solving,
\* joyful-ending, conflict, resolution, adventure; when no rule matches the
\* result is 'adventure'.
C13_ThemeRuleOrder ==
  Returned("detectChapterTheme") =>
    LET M == MatchingThemes(call.chapterText, call.chapterNumber) IN
    /\ M # {} => ret = ThemeOrder[Min(M)]
    /\ M = {} => ret = "adventure"

\* a later chapter whose text matches the joyful-ending rule and a rule
\* behind it: the earlier one wins
C13_Witness ==
  /\ Returned("detectChapterTheme")
  /\ call.chapterNumber # 1
  /\ {3, 4} \subseteq MatchingThemes(call.chapterText, call.chapterNumber)
  /\ ret = "joyful-ending"

\* no rule matches and the fallback is taken
C13_FallbackWitness ==
  /\ Returned("detectChapterTheme")
  /\ MatchingThemes(call.chapterText, call.chapterNumber) = {}
  /\ ret = "adventure"

\* C14 as stated: the pair returned for a theme is the same for every
\* chapter number.
C14_ThemeAloneDeterminesPair ==
  Returned("getCameraAndLighting") =>
    \A n \in ChapterNumbers :
      getCameraAndLighting([chapterNumber |-> n,
                            chapterTheme |-> call.chapterTheme]) = ret

\* the camera/lighting pair of a theme, for a chapter other than the first
ThemePreset(theme) ==
  CASE theme = "discovery" ->
         <<"front view, slightly low angle", "warm sunlight with magical glows">>
    [] theme \in {"problem-solving", "conflict"} ->
         <<"mid-shot, eye level", "diffused light with dramatic shadows">>
    [] theme \in {"joyful-ending", "resolution"} ->
         <<"wide shot, slightly high angle", "bright light with sparkles and glow">>
    [] theme = "adventure" ->
         <<"dynamic angle, slightly tilted", "vibrant light with strong highlights">>
    [] OTHER -> <<"front view, eye level", "soft daylight">>

\* C14 (amended): chapter number 1 always gets the discovery pair whatever
\* the theme; for every other chapter number the pair is a lookup keyed by
\* the theme alone, with one default entry.
C14_ThemeDeterminesPairAfterChapterOne ==
  Returned("getCameraAndLighting") =>
    LET pair == <<ret.cameraAngle, ret.lighting>> IN
    /\ call.chapterNumber = 1 => pair = ThemePreset("discovery")
    /\ call.chapterNumber # 1 => pair = ThemePreset(call.chapterTheme)

\* chapter 1 with a theme whose own pair is not the discovery pair
C14_Witness ==
  /\ Returned("getCameraAndLighting")
  /\ call.chapterNumber = 1
  /\ call.chapterTheme = "conflict"
  /\ ret.cameraAngle = "front view, slightly low angle"

\* the layer labels a composition is expected to carry, in order
ExpectedLayers(elements) ==
  <<"Foreground: ">>
  \o (IF elements.objects # <<>> THEN <<"Midground: ">> ELSE <<>>)
  \o (IF elements.settings # <<>> THEN <<"Background: ">> ELSE <<>>)
  \o <<"Camera angle: ", "Lighting: ">>

\* C15: after the heading, the composition lines come in a fixed order:
\* foreground always, then midground when objects are present, then
\* background when settings are present, and the camera-angle and lighting
\* lines always as the last two lines.
C15_CompositionLineOrder ==
  Returned("buildSceneComposition") =>
    LET lines == Lines(ret)
        layers == ExpectedLayers(call.elements)
        n == Len(lines)
    IN  /\ n = Len(layers) + 1
        /\ lines[1] = "Scene Composition:"
        /\ \A k \in 1..Len(layers) : StartsWith(lines[k + 1], layers[k])
        /\ StartsWith(lines[n - 1], "Camera angle: ")
        /\ StartsWith(lines[n], "Lighting: ")

\* both optional layers are present: six lines
C15_Witness ==
  /\ Returned("buildSceneComposition")
  /\ call.elements.objects # <<>>
  /\ call.elements.settings # <<>>
  /\ Len(Lines(ret)) = 6

\* the transition patterns that match a lowercased text
MatchingTransitions(lower) ==
  {i \in 1..Len(transitionPatterns) :
     RegexTest(lower, transitionPatterns[i].first, transitionPatterns[i].alts)}

SuddenMarker(lower) ==
  Includes(lower, "suddenly") \/ Includes(lower, "just then")

\* the discrete emotion words of the second tier, in the claim's order
SuddenWords == <<"surprised", "amazed", "worried", "excited", "shocked",
                 "delighted", "gasped">>

SuddenWordsIn(lower) ==
  {i \in 1..Len(SuddenWords) : Includes(lower, SuddenWords[i])}

\* the single/compound emotion groups with some keyword in the text
MatchingEmotionGroups(lower) ==
  {i \in 1..Len(singleEmotions) :
     \E k \in 1..Len(singleEmotions[i].keywords) :
       Includes(lower, singleEmotions[i].keywords[k])}

\* C16: extractEmotionalTransition is three-tiered: a matching transition
\* pattern wins (the first one) even with a sudden-change marker or an
\* emotion keyword present; else with 'suddenly' or 'just then' the result
\* is 'surprise and <e>' for the first listed word e found, or 'surprise and
\* wonder'; else the first matching emotion group's expression; else
\* 'wonder and excitement'.
C16_ThreeTierPolicy ==
  Returned("extractEmotionalTransition") =>
    LET lower == ToLowerCase(call.chapterText)
        T == MatchingTransitions(lower)
        E == SuddenWordsIn(lower)
        G == MatchingEmotionGroups(lower)
    IN  IF T # {} THEN ret = transitionPatterns[Min(T)].result
        ELSE IF SuddenMarker(lower)
        THEN IF E # {} THEN ret = "surprise and " \o SuddenWords[Min(E)]
             ELSE ret = "surprise and wonder"
        ELSE IF G # {} THEN ret = singleEmotions[Min(G)].expression
        ELSE ret = "wonder and excitement"

\* a transition pattern matches a text that also has a sudden-change marker
\* and an emotion keyword
C16_Witness ==
  /\ Returned("extractEmotionalTransition")
  /\ LET lower == ToLowerCase(call.chapterText)
     IN  /\ MatchingTransitions(lower) # {}
         /\ SuddenMarker(lower)
         /\ MatchingEmotionGroups(lower) # {}
  /\ ret = "excitement to surprised worry"

\* the second and third tiers and the default are taken as well
C16_SuddenWitness ==
  /\ Returned("extractEmotionalTransition")
  /\ ret = "surprise and worried"

C16_SuddenWonderWitness ==
  /\ Returned("extractEmotionalTransition")
  /\ ret = "surprise and wonder"

C16_SingleEmotionWitness ==
  /\ Returned("extractEmotionalTransition")
  /\ ~SuddenMarker(ToLowerCase(call.chapterText))
  /\ ret = "worry"

C16_DefaultWitness ==
  /\ Returned("extractEmotionalTransition")
  /\ ret = "wonder and excitement"

\* the character and object groups all of whose keywords occur in the text
FiringCharacters(lower) ==
  {i \in 1..Len(characterPatterns) :
     \A k \in 1..Len(characterPatterns[i].keywords) :
       Includes(lower, characterPatterns[i].keywords[k])}

FiringObjects(lower) ==
  {i \in 1..Len(objectPatterns) :
     \A k \in 1..Len(objectPatterns[i].keywords) :
       Includes(lower, objectPatterns[i].keywords[k])}

\* the clauses the claim allows: the first two firing character groups, then
\* the first firing object group
ExpectedClauses(lower) ==
  LET C == FiringCharacters(lower)
      O == FiringObjects(lower)
      first == <<characterPatterns[Min(C)].context>>
      second == <<characterPatterns[Min(C \ {Min(C)})].context>>
  IN  (IF C = {} THEN <<>>
       ELSE IF Cardinality(C) = 1 THEN first ELSE first \o second)
      \o (IF O = {} THEN <<>> ELSE <<objectPatterns[Min(O)].context>>)

\* at most three clauses glued with ', and '
Glued(clauses) ==
  CASE Len(clauses) = 0 -> ""
    [] Len(clauses) = 1 -> clauses[1]
    [] Len(clauses) = 2 -> clauses[1] \o ", and " \o clauses[2]
    [] Len(clauses) = 3 -> clauses[1] \o ", and " \o clauses[2]
                           \o ", and " \o clauses[3]

\* C17: extractSceneContext returns at most 2 character clauses followed by
\* at most 1 object clause, joined by ', and '; a group contributes only
\* when all its keywords are present; with no firing group the result is
\* the empty string.
C17_SceneContextClauses ==
  Returned("extractSceneContext") =>
    LET lower == ToLowerCase(call.chapterText)
        clauses == ExpectedClauses(lower)
    IN  /\ Len(clauses) <= 3
        /\ ret = Glued(clauses)
        /\ (FiringCharacters(lower) = {} /\ FiringObjects(lower) = {})
             => ret = ""

\* more than two character groups and an object group fire: three clauses
C17_Witness ==
  /\ Returned("extractSceneContext")
  /\ LET lower == ToLowerCase(call.chapterText)
     IN  /\ Cardinality(FiringCharacters(lower)) >= 3
         /\ FiringObjects(lower) # {}
         /\ Len(ExpectedClauses(lower)) = 3
         /\ ret = Glued(ExpectedClauses(lower))

\* no group fires
C17_EmptyWitness ==
  /\ Returned("extractSceneContext")
  /\ FiringCharacters(ToLowerCase(call.chapterText)) = {}
  /\ FiringObjects(ToLowerCase(call.chapterText)) = {}
  /\ ret = ""

\* the groups of a lexicon with at least one keyword in the text
MatchingGroups(groups, lower) ==
  {i \in 1..Len(groups) :
     \E k \in 1..Len(groups[i].keywords) : Includes(lower, groups[i].keywords[k])}

\* tags holds exactly the labels of the matching groups, once each, in
\* lexicon order
TagsExact(tags, groups, lower) ==
  LET M == MatchingGroups(groups, lower) IN
  /\ Len(tags) = Cardinality(M)
  /\ \A i \in M : \E a \in 1..Len(tags) : tags[a] = groups[i].label
  /\ \A a \in 1..Len(tags) : \E i \in M : tags[a] = groups[i].label
  /\ \A a, b \in 1..Len(tags) :
       a < b => \E i, j \in M : /\ i < j
                                /\ tags[a] = groups[i].label
                                /\ tags[b] = groups[j].label

\* C18: for each of the four categories analyzeChapterElements tags exactly
\* the groups with at least one keyword in the lowercased text, in lexicon
\* order and without duplicates (an empty list when none matches), and the
\* returned chapterText is the input unchanged.
C18_ElementTags ==
  Returned("analyzeChapterElements") =>
    LET lower == ToLowerCase(call.chapterText) IN
    /\ TagsExact(ret.settings, settingKeywords, lower)
    /\ TagsExact(ret.objects, objectKeywords, lower)
    /\ TagsExact(ret.actions, actionKeywords, lower)
    /\ TagsExact(ret.moods, moodKeywords, lower)
    /\ ret.chapterText = call.chapterText

\* one category with several tags next to a category with none, on a text
\* with upper-case letters
C18_Witness ==
  /\ Returned("analyzeChapterElements")
  /\ \E c \in {"settings", "objects", "actions", "moods"} : Len(ret[c]) >= 2
  /\ \E c \in {"settings", "objects", "actions", "moods"} : ret[c] = <<>>
  /\ ToLowerCase(call.chapterText) # call.chapterText

\* C19: extractSceneNouns returns a set: a vocabulary noun is in the result
\* if and only if it occurs in the lowercased text, and no noun appears in
\* the result more than once.
C19_SceneNounsAreASet ==
  Returned("extractSceneNouns") =>
    LET lower == ToLowerCase(call.chapterText) IN
    /\ \A i \in 1..Len(allNouns) :
         (\E a \in 1..Len(ret) : ret[a] = allNouns[i])
           <=> Includes(lower, allNouns[i])
    /\ \A a, b \in 1..Len(ret) : a # b => ret[a] # ret[b]

\* the environment families in the claim's priority order: the nouns that
\* select the family, its label, the nouns it lists and its filler
Families == <<
  [has |-> {"glowing", "moonpetal", "starlight", "portal", "archway"},
   label |-> "glowing magical forest with",
   lists |-> {"moonpetal", "starlight", "portal", "archway", "sprite",
              "glimmerwing", "petals"},
   filler |-> " sparkling trees and enchanted flowers"],
  [has |-> {"stream", "starlight stream"},
   label |-> "sparkling stream scene with",
   lists |-> {"vines", "giggle-vines", "moonpetal", "flowers", "forest"},
   filler |-> " flowing water and magical plants"],
  [has |-> {"garden", "flower", "sunflower", "blossom", "backyard"},
   label |-> "sunny garden with",
   lists |-> {"sunflower", "flower", "blossom", "grass", "rainbow",
              "butterfly", "caterpillar", "oak tree", "pebble", "moss"},
   filler |-> " colorful flowers and green grass"],
  [has |-> {"forest", "tree", "woods", "oak tree"},
   label |-> "enchanted forest with",
   lists |-> {"tree", "oak tree", "mushroom", "leaf", "owl", "squirrel",
              "moss", "petals"},
   filler |-> " tall trees and magical plants"],
  [has |-> {"ocean", "sea", "river", "lake", "water"},
   label |-> "water scene with",
   lists |-> {"fish", "coral", "wave", "dolphin", "whale"},
   filler |-> " sparkling water and aquatic life"]
>>

NounSet(sceneNouns) == {sceneNouns[i] : i \in 1..Len(sceneNouns)}

SatisfiedFamilies(sceneNouns) ==
  {f \in 1..Len(Families) : NounSet(sceneNouns) \cap Families[f].has # {}}

\* what may follow the family part: nothing, or ' and ' and one creature
CreatureSuffixes ==
  {""} \cup {" and " \o c : c \in {"butterfly", "caterpillar", "bird",
                                   "pixie", "fairy", "bee"}}

\* at most three nouns separated by ', '
CommaList(items) ==
  CASE Len(items) = 0 -> ""
    [] Len(items) = 1 -> items[1]
    [] Len(items) = 2 -> items[1] \o ", " \o items[2]
    [] Len(items) = 3 -> items[1] \o ", " \o items[2] \o ", " \o items[3]

\* the description of family f listing the given nouns
Listing(f, items) ==
  Families[f].label
  \o (IF items = <<>> THEN Families[f].filler ELSE " " \o CommaList(items))

\* C20: buildSceneDescription picks one family by the priority
\* magical-forest > stream > garden > forest > water: when the noun set
\* satisfies several families the description starts with the label of the
\* highest-priority one and lists at most 3 of that family's nouns found in
\* the set; the empty noun set yields 'a colorful magical storybook setting'.
C20_FamilyPriority ==
  Returned("buildSceneDescription") =>
    LET nouns == call.sceneNouns
        S == SatisfiedFamilies(nouns)
        f == Min(S)
        listed == NounSet(nouns) \cap Families[f].lists
    IN  /\ nouns = <<>> => ret = "a colorful magical storybook setting"
        /\ S # {} =>
             /\ StartsWith(ret, Families[f].label)
             /\ \A g \in 1..Len(Families) :
                  g # f => ~StartsWith(ret, Families[g].label)
             /\ \E items \in SeqsUpTo(listed, 3) : \E suffix \in CreatureSuffixes :
                  /\ items = <<>> => listed = {}
                  /\ ret = Listing(f, items) \o suffix

\* stream, forest and water are satisfied together and stream wins
C20_Witness ==
  /\ Returned("buildSceneDescription")
  /\ {2, 4, 5} \subseteq SatisfiedFamilies(call.sceneNouns)
  /\ 1 \notin SatisfiedFamilies(call.sceneNouns)
  /\ StartsWith(ret, "sparkling stream scene with")

\* more than 3 nouns of the chosen family are in the set
C20_TruncationWitness ==
  /\ Returned("buildSceneDescription")
  /\ SatisfiedFamilies(call.sceneNouns) # {}
  /\ Cardinality(NounSet(call.sceneNouns)
                 \cap Families[Min(SatisfiedFamilies(call.sceneNouns))].lists) > 3

\* the empty noun set
C20_DefaultWitness ==
  /\ Returned("buildSceneDescription")
  /\ call.sceneNouns = <<>>
  /\ ret = "a colorful magical storybook setting"

\* the creature nouns buildSceneDescription knows
CreatureNouns == {"butterfly", "caterpillar", "bird", "pixie", "fairy",
                  "sprite", "glimmerwing", "bee"}

\* number of places where w occurs in s
Occurrences(s, w) == Cardinality({i \in 1..Len(s) : OccursAt(s, i, w)})

\* C21: the creature appended by buildSceneDescription is not already in the
\* description: no creature noun occurs twice in the result.
C21_CreatureNotRepeated ==
  Returned("buildSceneDescription") =>
    \A c \in CreatureNouns : Occurrences(ret, c) <= 1

\* C22: in both modes of buildStorybookPrompt a blank feature value
\* suppresses its line entirely: no scene line without a pose, no keyword
\* line without an emotion, no scene-context or environment text from a
\* blank value.
C22_WholeLineOptionality ==
  Returned("buildStorybookPrompt") =>
    LET p == call.params
        lines == Lines(ret)
    IN  /\ ~NonBlank(p.visualPose) =>
             \A k \in 1..Len(lines) : ~StartsWith(lines[k], "Scene: ")
        /\ ~NonBlank(p.emotion) =>
             \A k \in 1..Len(lines) : ~StartsWith(lines[k], "Keywords: ")
        /\ \A k \in 1..Len(lines) :
             /\ ~Includes(lines[k], ", .")
             /\ Trim(lines[k]) # "."

\* C23: the legacy prompt has a scene-context line if and only if
\* sceneContext is non-blank, and exactly one environment line right after
\* it: the given environment when non-blank, else 'A bright forest clearing
\* glows with warm sunlight.'; so 7 lines with scene context and 6 without.
C23_LegacyLines ==
  (Returned("buildStorybookPrompt") /\ ~call.params.useSceneComposition) =>
    LET p == call.params
        lines == Lines(ret)
        hasContext == Trim(p.sceneContext) # ""
        env == IF Trim(p.environment) # "" THEN p.environment \o "."
               ELSE "A bright forest clearing glows with warm sunlight."
    IN  /\ Len(lines) = IF hasContext THEN 7 ELSE 6
        /\ StartsWith(lines[2], "Scene: ")
        /\ hasContext => lines[3] = p.sceneContext \o "." /\ lines[4] = env
        /\ ~hasContext => lines[3] = env
        /\ StartsWith(lines[Len(lines) - 2], "Style: ")

\* legacy mode with a scene context and no environment: 7 lines, the
\* default environment on the fourth
C23_Witness ==
  /\ Returned("buildStorybookPrompt")
  /\ ~call.params.useSceneComposition
  /\ call.params.sceneContext = "cheerful birds perch nearby"
  /\ call.params.environment = ""
  /\ Len(Lines(ret)) = 7
  /\ Lines(ret)[4] = "A bright forest clearing glows with warm sunlight."

\* legacy mode with a blank scene context: 6 lines
C23_ShortWitness ==
  /\ Returned("buildStorybookPrompt")
  /\ ~call.params.useSceneComposition
  /\ call.params.sceneContext = " "
  /\ Len(Lines(ret)) = 6

\* what invocation t returns when it runs alone
RunAlone(t) ==
  buildChapterSpecificPrompt(analyzeChapterElements(args[t].chapterText),
                             args[t].identity.childName,
                             args[t].identity.age,
                             args[t].identity.gender,
                             args[t].chapterNumber).finalPrompt

\* C24: whatever the interleaving of the invocations, each one returns the
\* prompt it returns when run alone.
C24_Isolation ==
  \A t \in DOMAIN step :
    step[t] = "returned" => returned[t] = RunAlone(t)

\* an invocation has returned while another one, for a different chapter,
\* is in the middle of its statements
C24_Witness ==
  /\ DOMAIN step = Tasks
  /\ step[1] = "returned"
  /\ step[2] = "sceneContext"
  /\ args[1] # args[2]
  /\ returned[1] = RunAlone(1)

\* C25: GET /pdf/download/:sessionId serves a PDF only for a session on
\* which POST /pdf/generate has completed successfully; for an unknown
\* session, or one without a generated PDF, it answers 404 and serves
\* nothing.
C25_DownloadAfterGenerate ==
  response.route = "pdf/download" =>
    LET sessionId == response.sessionId IN
    /\ response.served =>
         /\ response.status = 200
         /\ sessionId \in pdfGenerated
         /\ sessionId \in DOMAIN sessionStorage
    /\ (\/ sessionId \notin DOMAIN sessionStorage
        \/ sessionStorage[sessionId].pdfFilename = "none")
         => response.status = 404 /\ ~response.served

\* a download served after a successful generation
C25_Witness ==
  /\ response.route = "pdf/download"
  /\ response.served
  /\ response.sessionId \in pdfGenerated

\* a download refused for a stored session that has no PDF yet
C25_RefusedWitness ==
  /\ response.route = "pdf/download"
  /\ response.status = 404
  /\ response.sessionId \in DOMAIN sessionStorage
  /\ sessionStorage[response.sessionId].pdfFilename = "none"

\* C26: a request answered with 400, 404 or 500 leaves the session store
\* exactly as it was when the request arrived.
C26_ErrorsLeaveStoreUntouched ==
  response.status \in {400, 404, 500} => ~response.storeChanged

\* C27: in a batch every chapter's prompt carries the camera/lighting pair
\* of the theme detected from that chapter's own text and position.
C27_BatchUsesChapterTheme ==
  Returned("generateBatchPrompts") =>
    \A i \in 1..Len(ret) :
      LET theme == detectChapterTheme(call.chapters[i].chapterText, i)
          preset == getCameraAndLighting([chapterNumber |-> i,
                                          chapterTheme |-> theme])
      IN  Includes(ret[i], ". " \o preset.cameraAngle \o ", "
                           \o preset.lighting \o ".")

\* C28: the intro line names the gender that was supplied: the word after
\* '-year-old' is the gender value, so 'girl' is never stated for a
\* character whose gender is not 'girl'.
C28_IntroNamesSuppliedGender ==
  Returned("buildStorybookPrompt") =>
    LET intro == Lines(ret)[1] IN
    /\ Includes(intro, "-year-old " \o call.params.gender \o " in a magical forest.")
    /\ call.params.gender # "girl" => ~Includes(intro, "-year-old girl ")

\* w occurs in s as a word: no letter right before or right after it
WordIn(s, w) ==
  LET lower == ToLowerCase(s)
      Letter(i) == i >= 1 /\ i <= Len(lower)
                   /\ \E k \in 1..Len(LowerCaseLetters) :
                        OccursAt(lower, i, SubSeq(LowerCaseLetters, k, k))
  IN  \E i \in 1..Len(lower) :
        /\ OccursAt(lower, i, w)
        /\ ~Letter(i - 1)
        /\ ~Letter(i + Len(w))

\* C29: the prompt built for a character of gender 'boy' refers to the
\* character with no feminine pronoun ('she', 'her'), whatever pose or
\* scene-context phrase the extractors select.
C29_NoFemininePronounForBoy ==
  (Returned("buildChapterSpecificPrompt") /\ call.identity.gender = "boy") =>
    /\ ~WordIn(ret.finalPrompt, "she")
    /\ ~WordIn(ret.finalPrompt, "her")

\* the keywords of the single-emotion table, each taken as a one-word text
EmotionKeywordTexts ==
  UNION {{singleEmotions[i].keywords[k] :
            k \in 1..Len(singleEmotions[i].keywords)} :
         i \in 1..Len(singleEmotions)}

\* C30: no entry of the single-emotion table is dead: for every entry some
\* text makes extractEmotionalTransition return its expression, i.e. some
\* keyword of the entry is not captured by an entry placed before it.
C30_NoDeadEmotionRule ==
  Returned("extractEmotionalTransition") =>
    \A i \in 1..Len(singleEmotions) :
      /\ \E text \in EmotionKeywordTexts \cup {call.chapterText} :
           extractEmotionalTransition(text) = singleEmotions[i].expression
      /\ \E k \in 1..Len(singleEmotions[i].keywords) :
           \A j \in 1..(i - 1) : \A m \in 1..Len(singleEmotions[j].keywords) :
             ~Includes(singleEmotions[i].keywords[k],
                       singleEmotions[j].keywords[m])

====
